---------------------------- MODULE Spec2Model ----------------------------
(***************************************************************************)
(* Expense tracker: the category-assignment engine (app/ai_categorizer.py) *)
(* and the request handlers around it (app/routers), over a store of       *)
(* users, categories and expenses.                                         *)
(*                                                                         *)
(* Text is modelled by TLA+ strings; a character is a string of length 1.  *)
(* A lexical score is kept as an exact fraction num/den (the code divides  *)
(* a sum of 1.0 and 0.5 steps by the token count).                         *)
(***************************************************************************)
EXTENDS Integers, Sequences, FiniteSets, TLC

(***************************************************************************)
(* Python string primitives used by the code.                              *)
(***************************************************************************)
UPPERCASE == "ABCDEFGHIJKLMNOPQRSTUVWXYZ"
LOWERCASE == "abcdefghijklmnopqrstuvwxyz"
DIGITS == "0123456789"
WHITESPACE == {" ", "\t", "\n", "\r"}

Char(s, i) == SubSeq(s, i, i)

Chars(s) == {Char(s, i) : i \in 1..Len(s)}

IsUpper(c) == c \in Chars(UPPERCASE)
IsLower(c) == c \in Chars(LOWERCASE)
IsAlpha(c) == IsUpper(c) \/ IsLower(c)
IsSpace(c) == c \in WHITESPACE
\* \w of the re module: letters, digits and the underscore
IsWordChar(c) == IsAlpha(c) \/ c \in Chars(DIGITS) \/ c = "_"

LowerChar(c) ==
  IF IsUpper(c)
  THEN Char(LOWERCASE, CHOOSE i \in 1..Len(UPPERCASE) : Char(UPPERCASE, i) = c)
  ELSE c

UpperChar(c) ==
  IF IsLower(c)
  THEN Char(UPPERCASE, CHOOSE i \in 1..Len(LOWERCASE) : Char(LOWERCASE, i) = c)
  ELSE c

\* str.lower()
RECURSIVE str_lower(_)
str_lower(s) ==
  IF s = "" THEN "" ELSE LowerChar(Head(s)) \o str_lower(Tail(s))

\* str.strip(): leading and trailing whitespace removed
RECURSIVE str_lstrip(_)
str_lstrip(s) ==
  IF s # "" /\ IsSpace(Head(s)) THEN str_lstrip(Tail(s)) ELSE s

RECURSIVE str_rstrip(_)
str_rstrip(s) ==
  IF s # "" /\ IsSpace(Char(s, Len(s)))
  THEN str_rstrip(SubSeq(s, 1, Len(s) - 1))
  ELSE s

str_strip(s) == str_rstrip(str_lstrip(s))

\* str.title(): the first letter of every run of letters in upper case, the
\* other letters of the run in lower case; prev is whether the character
\* before s is a letter
RECURSIVE TitleFrom(_, _)
TitleFrom(s, prev) ==
  IF s = "" THEN ""
  ELSE LET c == Head(s)
       IN (IF ~IsAlpha(c) THEN c
           ELSE IF prev THEN LowerChar(c) ELSE UpperChar(c))
          \o TitleFrom(Tail(s), IsAlpha(c))

str_title(s) == TitleFrom(s, FALSE)

\* str.split() without arguments: the maximal runs of non-whitespace
RECURSIVE SplitFrom(_, _)
SplitFrom(s, word) ==
  IF s = "" THEN (IF word = "" THEN <<>> ELSE <<word>>)
  ELSE IF IsSpace(Head(s))
       THEN (IF word = "" THEN <<>> ELSE <<word>>) \o SplitFrom(Tail(s), "")
       ELSE SplitFrom(Tail(s), word \o Head(s))

str_split(s) == SplitFrom(s, "")

\* the operator "k in s" on strings
Contains(s, k) ==
  \E i \in 0..(Len(s) - Len(k)) : SubSeq(s, i + 1, i + Len(k)) = k

\* re.sub(r'[^\w\s]', ' ', text)
RECURSIVE SubNonWord(_)
SubNonWord(s) ==
  IF s = "" THEN ""
  ELSE (IF IsWordChar(Head(s)) \/ IsSpace(Head(s)) THEN Head(s) ELSE " ")
       \o SubNonWord(Tail(s))

\* re.sub(r'\s+', ' ', text); inRun is whether the character before s is
\* whitespace already replaced
RECURSIVE SubSpaces(_, _)
SubSpaces(s, inRun) ==
  IF s = "" THEN ""
  ELSE IF IsSpace(Head(s))
       THEN (IF inRun THEN "" ELSE " ") \o SubSpaces(Tail(s), TRUE)
       ELSE Head(s) \o SubSpaces(Tail(s), FALSE)

(***************************************************************************)
(* ExpenseCategorizer: the keyword table, text cleaning and scoring.       *)
(***************************************************************************)
category_keywords ==
  [ Food |->
      << "food", "meal", "lunch", "dinner", "breakfast", "snack",
         "restaurant", "cafe", "coffee", "pizza", "burger", "sandwich",
         "vegetables", "fruits", "milk", "bread", "rice", "dal",
         "curry", "biryani", "dosa", "idli", "samosa", "tea", "juice",
         "swiggy", "zomato", "uber eats", "foodpanda", "dominos", "kfc",
         "mcdonalds", "hotel", "dhaba", "canteen", "mess", "tiffin",
         "paratha", "roti", "chapati" >>,
    Grocery |->
      << "grocery", "groceries", "supermarket", "market", "bazaar",
         "store", "shop", "reliance fresh", "big bazaar", "more",
         "dmart", "spencer", "nature basket", "chicken", "mutton",
         "lamb", "beef", "pork", "fish", "seafood", "prawns", "crab",
         "egg", "eggs", "paneer", "tofu", "protein", "apple", "banana",
         "orange", "mango", "grapes", "strawberry", "watermelon",
         "pineapple", "papaya", "guava", "kiwi", "pomegranate", "lemon",
         "lime", "coconut", "dates", "potato", "onion", "tomato",
         "carrot", "cabbage", "spinach", "broccoli", "cauliflower",
         "peas", "beans", "corn", "cucumber", "pepper", "chilli",
         "ginger", "garlic", "wheat", "flour", "oats", "quinoa",
         "barley", "pulses", "lentils", "chickpeas", "yogurt", "curd",
         "cheese", "butter", "cream", "ghee", "almond milk", "soy milk",
         "detergent", "soap", "shampoo", "toothpaste", "tissue",
         "toilet paper", "oil", "salt", "sugar", "spices" >>,
    Transport |->
      << "transport", "uber", "ola", "taxi", "cab", "bus", "train",
         "metro", "auto", "rickshaw", "fuel", "petrol", "diesel", "gas",
         "parking", "toll", "flight", "airport", "railway", "ticket",
         "booking", "travel", "commute", "vehicle", "bike", "car",
         "scooter", "motorcycle", "rapido", "bounce", "yulu" >>,
    Entertainment |->
      << "movie", "cinema", "theater", "concert", "show", "game",
         "gaming", "netflix", "prime", "hotstar", "spotify", "youtube",
         "subscription", "entertainment", "fun", "party", "club", "bar",
         "pub", "bowling", "sports", "gym", "fitness", "book",
         "magazine", "newspaper", "music", "album", "ticket", "event" >>,
    Shopping |->
      << "shopping", "clothes", "shirt", "pants", "dress", "shoes",
         "bag", "accessories", "amazon", "flipkart", "myntra", "ajio",
         "nykaa", "electronics", "mobile", "laptop", "computer",
         "headphones", "charger", "cable", "gadget", "appliance",
         "furniture", "home", "decoration", "gift", "present", "online",
         "store", "mall" >>,
    Healthcare |->
      << "doctor", "hospital", "clinic", "medicine", "pharmacy",
         "medical", "health", "checkup", "consultation", "treatment",
         "surgery", "dental", "dentist", "eye", "optician", "glasses",
         "test", "lab", "blood", "xray", "scan", "physiotherapy",
         "therapy", "massage", "wellness", "vitamins", "supplements" >>,
    Utilities |->
      << "electricity", "water", "gas", "internet", "wifi", "phone",
         "mobile", "postpaid", "prepaid", "recharge", "bill", "utility",
         "maintenance", "repair", "service", "cleaning", "laundry",
         "rent", "emi", "loan", "insurance", "bank", "charges", "fee",
         "subscription", "premium", "payment", "transfer" >>,
    Education |->
      << "education", "school", "college", "university", "course",
         "class", "tuition", "coaching", "training", "workshop",
         "seminar", "conference", "book", "notebook", "pen", "pencil",
         "stationery", "fees", "admission", "exam", "test", "study",
         "online course", "udemy", "coursera", "skill", "learning",
         "certificate" >> ]

\* the keys of category_keywords in the order the dict literal inserts them
keyword_categories ==
  << "Food", "Grocery", "Transport", "Entertainment", "Shopping",
     "Healthcare", "Utilities", "Education" >>

\* the cleaning with the strip done first, before the substitutions
CleanTextStripFirst(text) ==
  SubSpaces(SubNonWord(str_strip(str_lower(text))), FALSE)

_clean_text(text) == str_strip(SubSpaces(SubNonWord(str_lower(text)), FALSE))

\* A score num/den; the code's floats are sums of 1.0 and 0.5 divided by a
\* token count, kept here in halves over twice the count.
Score(num, den) == [num |-> num, den |-> den]
ScoreGT(a, b) == a.num * b.den > b.num * a.den
ScorePositive(a) == a.num > 0

\* the loop over keywords with the partial match counted once for every
\* word that matches
KeywordPointsPerWord(note, words_in_note, keyword) ==
  (IF Contains(note, keyword) THEN 2 ELSE 0)
  + Cardinality({j \in 1..Len(words_in_note) :
                   \/ Contains(words_in_note[j], keyword)
                   \/ Contains(keyword, words_in_note[j])})

\* one pass of the loop over keywords, in halves: 1.0 when the keyword occurs
\* in the note, 0.5 when some word contains it or is contained in it
KeywordPoints(note, words_in_note, keyword) ==
  (IF Contains(note, keyword) THEN 2 ELSE 0)
  + (IF \E j \in 1..Len(words_in_note) :
          \/ Contains(words_in_note[j], keyword)
          \/ Contains(keyword, words_in_note[j])
     THEN 1 ELSE 0)

RECURSIVE SumPoints(_, _, _, _)
SumPoints(note, words_in_note, keywords, i) ==
  IF i > Len(keywords) THEN 0
  ELSE KeywordPoints(note, words_in_note, keywords[i])
       + SumPoints(note, words_in_note, keywords, i + 1)

\* the scorer looking the name up in the table whatever its case
CalculateCategoryScoreAnyCase(note, category_name) ==
  IF str_title(category_name) \notin DOMAIN category_keywords THEN Score(0, 1)
  ELSE LET keywords == category_keywords[str_title(category_name)]
           words_in_note == str_split(note)
           total_words == Len(words_in_note)
       IN IF total_words = 0 THEN Score(0, 1)
          ELSE Score(SumPoints(note, words_in_note, keywords, 1),
                     2 * (IF total_words > 1 THEN total_words ELSE 1))

_calculate_category_score(note, category_name) ==
  IF category_name \notin DOMAIN category_keywords THEN Score(0, 1)
  ELSE LET keywords == category_keywords[category_name]
           words_in_note == str_split(note)
           total_words == Len(words_in_note)
       IN IF total_words = 0 THEN Score(0, 1)
          ELSE Score(SumPoints(note, words_in_note, keywords, 1),
                     2 * (IF total_words > 1 THEN total_words ELSE 1))

\* the notes that requests carry, and the notes handed to the resolver alone
Notes == {"electricity bill payment", "qq"}
NotesR == {"uber ride to office", "gas", "completely unrelated gibberish",
           "lunch at restaurant"}
\* the notes suggestions are asked for: raw text that cleaning changes, a
\* note nothing matches, notes with tied scores, and notes of eight words,
\* whose scores times 100 can fall exactly between two tenths
NotesS == {"Lunch, at CAFE with coffee!", "lunch at restaurant", "gas",
           "completely unrelated gibberish", "uber ride to office",
           "electricity bill payment",
           "paid uber for the ride to office today",
           "zz yy xx ww vv uu tt netflix"}

\* _calculate_category_score on the cleaned notes above, evaluated once:
\* the notes of requests and of the resolver in one table, the notes of the
\* suggestions in another
ScoreTable ==
  { <<n, c, _calculate_category_score(n, c)>> :
      n \in {_clean_text(t) : t \in Notes \cup NotesR},
      c \in DOMAIN category_keywords }
ScoreTableS ==
  { <<n, c, _calculate_category_score(n, c)>> :
      n \in {_clean_text(t) : t \in NotesS \ (Notes \cup NotesR)},
      c \in DOMAIN category_keywords }
ScoreOf(note, category_name) ==
  IF \E t \in ScoreTable : t[1] = note /\ t[2] = category_name
  THEN (CHOOSE t \in ScoreTable : t[1] = note /\ t[2] = category_name)[3]
  ELSE IF \E t \in ScoreTableS : t[1] = note /\ t[2] = category_name
  THEN (CHOOSE t \in ScoreTableS : t[1] = note /\ t[2] = category_name)[3]
  ELSE _calculate_category_score(note, category_name)

\* _clean_text on the notes above, evaluated once
CleanTable ==
  { <<t, _clean_text(t)>> : t \in Notes \cup NotesR \cup NotesS }
CleanOf(text) ==
  IF \E p \in CleanTable : p[1] = text
  THEN (CHOOSE p \in CleanTable : p[1] = text)[2]
  ELSE _clean_text(text)

(***************************************************************************)
(* Python values: None, truthiness, dicts in insertion order, exceptions.  *)
(***************************************************************************)
None == "<None>"

\* "if x" on an Optional[str]: None and the empty string are false
Truthy(v) == v # None /\ v # ""

InSeq(x, seq) == \E i \in 1..Len(seq) : seq[i] = x

\* a dict is the sequence of its items [key, val] in insertion order
DictHas(d, k) == \E i \in 1..Len(d) : d[i].key = k
DictGet(d, k, default) ==
  IF DictHas(d, k)
  THEN d[CHOOSE i \in 1..Len(d) : d[i].key = k].val
  ELSE default
\* d[k] = v: an existing key keeps its position and takes the new value
DictPut(d, k, v) ==
  IF DictHas(d, k)
  THEN [i \in 1..Len(d) |-> IF d[i].key = k THEN [key |-> k, val |-> v] ELSE d[i]]
  ELSE Append(d, [key |-> k, val |-> v])
DictKeys(d) == [i \in 1..Len(d) |-> d[i].key]

\* the outcome of a block of code: it raised, or it returned val; trace is
\* the sequence of calls to collaborators it made
Raised(trace) == [exc |-> TRUE, val |-> None, trace |-> trace]
Returned(val, trace) == [exc |-> FALSE, val |-> val, trace |-> trace]

(***************************************************************************)
(* The store: rows of the categories and expenses tables.                  *)
(***************************************************************************)
\* supabase.table('categories').select('*').eq('user_id', user_id)
\* the select with no filter on the owner
SelectCategoriesOfAnyone(cats, user_id) == cats

SelectCategories(cats, user_id) ==
  SelectSeq(cats, LAMBDA c : c.user_id = user_id)

(***************************************************************************)
(* ExpenseCategorizer: the remote classifier adapter and the resolver.     *)
(* response is what the remote call does: it raises (err) or answers with  *)
(* the text content.                                                       *)
(***************************************************************************)
\* the match taking the last of the names equal ignoring case
MatchCategoryLast(category, available_categories, hits) ==
  IF InSeq(category, available_categories) THEN category
  ELSE IF hits # {}
       THEN available_categories[CHOOSE i \in hits : \A j \in hits : i >= j]
       ELSE None

\* the answer matched against the allowed names: the exact name, else the
\* first name equal to it ignoring case, else nothing
MatchCategory(category, available_categories, hits) ==
  IF InSeq(category, available_categories) THEN category
  ELSE IF hits # {}
       THEN available_categories[CHOOSE i \in hits : \A j \in hits : i <= j]
       ELSE None

CaseInsensitiveHits(category, available_categories) ==
  {i \in 1..Len(available_categories) :
     str_lower(available_categories[i]) = str_lower(category)}

\* response is what the remote call does: it raises (err) or it answers with
\* the text content
_categorize_with_openai(note, available_categories, response) ==
  IF response.err THEN None
  ELSE MatchCategory(str_strip(response.content), available_categories,
                     CaseInsensitiveHits(str_strip(response.content),
                                         available_categories))

\* if score > 0: category_scores[category_id] = score
PutIfPositive(category_scores, category_id, score) ==
  IF ScorePositive(score) THEN DictPut(category_scores, category_id, score)
  ELSE category_scores

\* the loop filling category_scores, from item i of user_categories on
RECURSIVE CategoryScores(_, _, _, _)
CategoryScores(clean_note, user_categories, i, category_scores) ==
  IF i > Len(user_categories) THEN category_scores
  ELSE CategoryScores(clean_note, user_categories, i + 1,
         PutIfPositive(category_scores, user_categories[i].val,
                       ScoreOf(clean_note, user_categories[i].key)))

\* max taking the last of the items with the highest score
MaxByScoreLast(items) ==
  items[CHOOSE i \in 1..Len(items) :
          /\ \A j \in 1..Len(items) : ~ScoreGT(items[j].val, items[i].val)
          /\ \A j \in (i + 1)..Len(items) : ScoreGT(items[i].val, items[j].val)]

\* max(items, key=score): the first item no other item beats
MaxByScore(items) ==
  items[CHOOSE i \in 1..Len(items) :
          /\ \A j \in 1..Len(items) : ~ScoreGT(items[j].val, items[i].val)
          /\ \A j \in 1..(i - 1) : ScoreGT(items[i].val, items[j].val)]

\* the best scored category, and nothing when nothing scored
BestOrNone(category_scores, user_categories) ==
  IF category_scores # <<>>
  THEN MaxByScore(category_scores).key
  ELSE None

\* the best scored category, or the one named "Other" when nothing scored
BestOrOther(category_scores, user_categories) ==
  IF category_scores # <<>>
  THEN MaxByScore(category_scores).key
  ELSE DictGet(user_categories, "Other", None)

_categorize_with_keywords(note, user_categories) ==
  BestOrOther(CategoryScores(CleanOf(note), user_categories, 1, <<>>),
              user_categories)

\* {cat['name']: cat['id'] for cat in data}
RECURSIVE NameToId(_, _, _)
NameToId(data, i, d) ==
  IF i > Len(data) THEN d
  ELSE NameToId(data, i + 1, DictPut(d, data[i].name, data[i].id))

\* the same with the classifier asked a second time when its label is not
\* taken
CategorizeWithRepeat(note, user_categories, openai_category) ==
  IF Truthy(openai_category) /\ DictHas(user_categories, openai_category)
  THEN Returned(DictGet(user_categories, openai_category, None),
                <<"list1", "openai">>)
  ELSE Returned(_categorize_with_keywords(note, user_categories),
                <<"list1", "openai", "openai", "keywords">>)

\* the classifier's label is taken when it is truthy and a key of
\* user_categories, the lexical scorer is asked otherwise
CategorizeWith(note, user_categories, openai_category) ==
  IF Truthy(openai_category) /\ DictHas(user_categories, openai_category)
  THEN Returned(DictGet(user_categories, openai_category, None),
                <<"list1", "openai">>)
  ELSE Returned(_categorize_with_keywords(note, user_categories),
                <<"list1", "openai", "keywords">>)

\* the outer try without the return on an empty listing
CategorizeListedUnchecked(note, data, response) ==
  CategorizeWith(note, NameToId(data, 1, <<>>),
    _categorize_with_openai(note, DictKeys(NameToId(data, 1, <<>>)), response))

\* the outer try giving up, with no scoring, on an empty answer
CategorizeListedEmptyAnswer(note, data, response) ==
  IF data = <<>> \/ (~response.err /\ response.content = "")
  THEN Returned(None, <<"list1">>)
  ELSE CategorizeWith(note, NameToId(data, 1, <<>>),
         _categorize_with_openai(note, DictKeys(NameToId(data, 1, <<>>)),
                                 response))

\* the outer try after the listing returned data
CategorizeListed(note, data, response) ==
  IF data = <<>> THEN Returned(None, <<"list1">>)
  ELSE CategorizeWith(note, NameToId(data, 1, <<>>),
         _categorize_with_openai(note, DictKeys(NameToId(data, 1, <<>>)),
                                 response))

\* the body of the outer try of categorize_expense
CategorizeTry(note, user_id, cats, response, fail) ==
  IF "list1" \in fail THEN Raised(<<"list1">>)
  ELSE CategorizeListed(note, SelectCategories(cats, user_id), response)

\* the inner try asking the classifier again, and unanswered, before scoring
CategorizeFallbackWithRemote(note, data) ==
  IF data # <<>>
  THEN Returned(_categorize_with_keywords(note, NameToId(data, 1, <<>>)),
                <<"list2", "openai", "keywords">>)
  ELSE Returned(None, <<"list2">>)

\* the inner try after the second listing returned data
CategorizeFallbackListed(note, data) ==
  IF data # <<>>
  THEN Returned(_categorize_with_keywords(note, NameToId(data, 1, <<>>)),
                <<"list2", "keywords">>)
  ELSE Returned(None, <<"list2">>)

\* the body of the inner try, in the handler of the outer one
CategorizeFallbackTry(note, user_id, cats, fail) ==
  IF "list2" \in fail THEN Raised(<<"list2">>)
  ELSE CategorizeFallbackListed(note, SelectCategories(cats, user_id))

\* the inner try without its except clause
ExceptNothing(inner) == inner

\* except Exception around the inner try, then return None
ExceptReturnNone(inner) ==
  IF inner.exc THEN Returned(None, inner.trace) ELSE inner

\* the handler of the outer try
CategorizeExcept(note, user_id, cats, fail) ==
  ExceptReturnNone(CategorizeFallbackTry(note, user_id, cats, fail))

\* the outcome of the outer try, or of its handler when the try raised
TryExcept(first, second) ==
  IF ~first.exc THEN first
  ELSE [second EXCEPT !.trace = first.trace \o second.trace]

categorize_expense(note, user_id, cats, response, fail) ==
  TryExcept(CategorizeTry(note, user_id, cats, response, fail),
            CategorizeExcept(note, user_id, cats, fail))

(***************************************************************************)
(* Bounds of the model and the inputs requests are drawn from.             *)
(***************************************************************************)
MaxRequests == 3
MaxFailures == 2
MaxListing == 3

Emails == {"a@x.in", "b@x.in"}
\* an amount is rupees and thousandths of a rupee
Amounts == {[r |-> 0, m |-> 0], [r |-> 120, m |-> 500]}
RawNames == {"grocery", " "}
NewNames == {"Misc", "Other"}
NewEmojis == {"star"}
Contents == {"Food", "Pizza"}
Responses == {[err |-> TRUE, content |-> None]}
               \cup {[err |-> FALSE, content |-> c] : c \in Contents}

\* the sets of store calls that fail during one request
FailSets(calls) == {f \in SUBSET calls : Cardinality(f) <= MaxFailures}

(***************************************************************************)
(* Request validation (app/models.py).                                     *)
(***************************************************************************)
MAX_AMOUNT == 10000000
MAX_NOTE_LENGTH == 500
MAX_NAME_LENGTH == 50

\* Decimal comparisons of the validators
AmountPositive(v) == v.r > 0 \/ v.m > 0
AmountExceeds(v, limit) == v.r > limit \/ (v.r = limit /\ v.m > 0)

\* round(v, 2) of a Decimal: the thousandths to a multiple of ten, half to even
Round2(v) ==
  LET q == v.m \div 10
      d == v.m % 10
      up == IF d > 5 \/ (d = 5 /\ q % 2 = 1) THEN q + 1 ELSE q
  IN IF up = 100 THEN [r |-> v.r + 1, m |-> 0] ELSE [r |-> v.r, m |-> 10 * up]

\* ExpenseCreate: the parsed request, or invalid (the request ends with 422)
ExpenseCreate(amount, note, category_id) ==
  IF /\ AmountPositive(amount)
     /\ ~AmountExceeds(amount, MAX_AMOUNT)
     /\ Len(note) <= MAX_NOTE_LENGTH
     /\ str_strip(note) # ""
  THEN [valid |-> TRUE, amount |-> Round2(amount), note |-> str_strip(note),
        category_id |-> category_id]
  ELSE [valid |-> FALSE, amount |-> amount, note |-> note,
        category_id |-> category_id]

\* ExpenseUpdate: every field is optional; the note is not stripped. An
\* optional amount is <<>> (None) or <<v>>.
ExpenseUpdate(amount, note, category_id) ==
  IF /\ amount # <<>> => (/\ AmountPositive(amount[1])
                          /\ ~AmountExceeds(amount[1], MAX_AMOUNT))
     /\ note # None => Len(note) <= MAX_NOTE_LENGTH
  THEN [valid |-> TRUE,
        amount |-> IF amount # <<>> THEN <<Round2(amount[1])>> ELSE <<>>,
        note |-> note, category_id |-> category_id]
  ELSE [valid |-> FALSE, amount |-> amount, note |-> note,
        category_id |-> category_id]

\* CategoryCreate: the length is checked on the raw name, then validate_name
CategoryCreate(name, emoji) ==
  IF Len(name) >= 1 /\ Len(name) <= MAX_NAME_LENGTH
  THEN [valid |-> TRUE, name |-> str_title(str_strip(name)), emoji |-> emoji]
  ELSE [valid |-> FALSE, name |-> name, emoji |-> emoji]

CategoryUpdate(name, emoji) ==
  [valid |-> name # None => (Len(name) >= 1 /\ Len(name) <= MAX_NAME_LENGTH),
   name |-> name, emoji |-> emoji]

(***************************************************************************)
(* The store and the responses of the request handlers.  The store is the  *)
(* record db of its tables and id counters; a handler maps a store, the    *)
(* request and the set fail of store calls that raise during the request   *)
(* to a response: the status, the store it leaves, the calls it made and   *)
(* the value the resolver returned to it.  The tables are plain rows: the   *)
(* constraints of the schema printed by database.py (foreign keys, the     *)
(* unique (name, user_id), amount > 0) are not part of the store here, so  *)
(* every property below rests on what the handlers themselves do.          *)
(***************************************************************************)
VARIABLES users, categories, expenses, next_id, last, nreq,
          foreign_keys, pending

vars == <<users, categories, expenses, next_id, last, nreq,
          foreign_keys, pending>>

\* foreign_keys is whether the store was created with the references of the
\* schema database.py prints, and pending the requests in flight when
\* requests overlap; where requests are served one at a time no handler
\* writes a row the references reject and nothing is in flight
Sequential == foreign_keys = FALSE /\ pending = <<>>

DB == [users |-> users, categories |-> categories, expenses |-> expenses,
       next_id |-> next_id]

\* gen_random_uuid(): an id no row of the table had before
NewId(prefix, n) == prefix \o ToString(n)

Resp(status, db, trace, resolved) ==
  [status |-> status, db |-> db, trace |-> trace, resolved |-> resolved]

Range(seq) == {seq[i] : i \in 1..Len(seq)}

(***************************************************************************)
(* app/routers/auth.py                                                     *)
(***************************************************************************)
default_categories ==
  << [name |-> "Food", emoji |-> "plate"],
     [name |-> "Transport", emoji |-> "car"],
     [name |-> "Entertainment", emoji |-> "clapper"],
     [name |-> "Shopping", emoji |-> "cart"],
     [name |-> "Healthcare", emoji |-> "hospital"],
     [name |-> "Utilities", emoji |-> "bulb"],
     [name |-> "Education", emoji |-> "books"],
     [name |-> "Other", emoji |-> "memo"] >>

\* one insert of the eight rows; its failure is logged and swallowed
create_user_categories(db, user_id, fail) ==
  IF "insert_categories" \in fail THEN db
  ELSE [db EXCEPT
          !.categories = @ \o
             [i \in 1..Len(default_categories) |->
                [id |-> NewId("c", db.next_id.categories + i - 1),
                 name |-> default_categories[i].name,
                 emoji |-> default_categories[i].emoji,
                 user_id |-> user_id]],
          !.next_id.categories = @ + Len(default_categories)]

register(db, email, fail) ==
  IF "check" \in fail THEN Resp(500, db, <<"check">>, None)
  ELSE IF \E u \in db.users : u.email = email
  THEN Resp(400, db, <<"check">>, None)
  ELSE IF "insert_user" \in fail
  THEN Resp(500, db, <<"check", "insert_user">>, None)
  ELSE LET user == [id |-> NewId("u", db.next_id.users), email |-> email]
           db1 == [db EXCEPT !.users = @ \cup {user}, !.next_id.users = @ + 1]
       IN Resp(201, create_user_categories(db1, user.id, fail),
               <<"check", "insert_user", "insert_categories">>, None)

(***************************************************************************)
(* app/routers/categories.py                                               *)
(***************************************************************************)
create_category(db, user_id, category_data, fail) ==
  IF "check" \in fail THEN Resp(500, db, <<"check">>, None)
  ELSE IF \E i \in 1..Len(db.categories) :
             /\ db.categories[i].user_id = user_id
             /\ db.categories[i].name = category_data.name
  THEN Resp(400, db, <<"check">>, None)
  ELSE IF "insert" \in fail THEN Resp(500, db, <<"check", "insert">>, None)
  ELSE Resp(201,
            [db EXCEPT
               !.categories = Append(@,
                  [id |-> NewId("c", db.next_id.categories),
                   name |-> category_data.name,
                   emoji |-> category_data.emoji,
                   user_id |-> user_id]),
               !.next_id.categories = @ + 1],
            <<"check", "insert">>, None)

\* .update(update_data).eq('id', category_id) on the categories table
UpdateCategoryRows(cats, category_id, name, emoji) ==
  [i \in 1..Len(cats) |->
     IF cats[i].id = category_id
     THEN [cats[i] EXCEPT
             !.name = IF name # None THEN name ELSE @,
             !.emoji = IF emoji # None THEN emoji ELSE @]
     ELSE cats[i]]

\* the update with no look at the names the user already has
UpdateCategoryNoNameCheck(db, user_id, category_id, category_data, fail) ==
  IF "existing" \in fail THEN Resp(500, db, <<"existing">>, None)
  ELSE IF ~\E i \in 1..Len(db.categories) :
              /\ db.categories[i].id = category_id
              /\ db.categories[i].user_id = user_id
  THEN Resp(404, db, <<"existing">>, None)
  ELSE IF category_data.name = None /\ category_data.emoji = None
  THEN Resp(400, db, <<"existing">>, None)
  ELSE IF "update" \in fail
  THEN Resp(500, db, <<"existing", "update">>, None)
  ELSE Resp(200,
            [db EXCEPT !.categories =
               UpdateCategoryRows(@, category_id, category_data.name,
                                  category_data.emoji)],
            <<"existing", "update">>, None)

update_category(db, user_id, category_id, category_data, fail) ==
  IF "existing" \in fail THEN Resp(500, db, <<"existing">>, None)
  ELSE IF ~\E i \in 1..Len(db.categories) :
              /\ db.categories[i].id = category_id
              /\ db.categories[i].user_id = user_id
  THEN Resp(404, db, <<"existing">>, None)
  ELSE IF category_data.name # None /\ "name_check" \in fail
  THEN Resp(500, db, <<"existing", "name_check">>, None)
  ELSE IF /\ category_data.name # None
          /\ \E i \in 1..Len(db.categories) :
                /\ db.categories[i].user_id = user_id
                /\ db.categories[i].name = category_data.name
                /\ db.categories[i].id # category_id
  THEN Resp(400, db, <<"existing", "name_check">>, None)
  ELSE LET checks == IF category_data.name # None
                     THEN <<"existing", "name_check">> ELSE <<"existing">>
       IN IF category_data.name = None /\ category_data.emoji = None
          THEN Resp(400, db, checks, None)
          ELSE IF "update" \in fail
          THEN Resp(500, db, Append(checks, "update"), None)
          ELSE Resp(200,
                    [db EXCEPT !.categories =
                       UpdateCategoryRows(@, category_id, category_data.name,
                                          category_data.emoji)],
                    Append(checks, "update"), None)

\* .update({'category_id': other_category_id}).eq('category_id', category_id)
\* a delete that leaves the expenses of the category where they are
MoveNoExpenses(exps, category_id, other_category_id) == exps

\* .update({'category_id': other_category_id}).eq('category_id', category_id)
MoveExpenses(exps, category_id, other_category_id) ==
  {IF e.category_id = category_id
   THEN [e EXCEPT !.category_id = other_category_id] ELSE e : e \in exps}

\* .select('id').eq('user_id', user_id).eq('name', 'Other'): the ids, in
\* table order
OtherIds(cats, user_id) ==
  LET rows == SelectSeq(cats, LAMBDA c : c.user_id = user_id /\ c.name = "Other")
  IN [i \in 1..Len(rows) |-> rows[i].id]

\* a delete that moves the expenses and answers 204 with the row left in
\* the table
DeleteCategoryKeepRow(db, user_id, category_id, fail) ==
  LET existing == SelectSeq(db.categories,
                    LAMBDA c : c.id = category_id /\ c.user_id = user_id)
      other_category == OtherIds(db.categories, user_id)
  IN IF "existing" \in fail THEN Resp(500, db, <<"existing">>, None)
     ELSE IF existing = <<>> THEN Resp(404, db, <<"existing">>, None)
     ELSE IF existing[1].name = "Other" THEN Resp(400, db, <<"existing">>, None)
     ELSE IF "other" \in fail THEN Resp(500, db, <<"existing", "other">>, None)
     ELSE IF other_category = <<>>
     THEN Resp(500, db, <<"existing", "other">>, None)
     ELSE IF "move" \in fail
     THEN Resp(500, db, <<"existing", "other", "move">>, None)
     ELSE IF "delete" \in fail
     THEN Resp(500, [db EXCEPT !.expenses =
                       MoveExpenses(@, category_id, other_category[1])],
               <<"existing", "other", "move", "delete">>, None)
     ELSE Resp(204, [db EXCEPT !.expenses =
                       MoveExpenses(@, category_id, other_category[1])],
               <<"existing", "other", "move", "delete">>, None)

delete_category(db, user_id, category_id, fail) ==
  LET existing == SelectSeq(db.categories,
                    LAMBDA c : c.id = category_id /\ c.user_id = user_id)
      other_category == OtherIds(db.categories, user_id)
  IN IF "existing" \in fail THEN Resp(500, db, <<"existing">>, None)
     ELSE IF existing = <<>> THEN Resp(404, db, <<"existing">>, None)
     ELSE IF existing[1].name = "Other" THEN Resp(400, db, <<"existing">>, None)
     ELSE IF "other" \in fail THEN Resp(500, db, <<"existing", "other">>, None)
     ELSE IF other_category = <<>>
     THEN Resp(500, db, <<"existing", "other">>, None)
     ELSE IF "move" \in fail
     THEN Resp(500, db, <<"existing", "other", "move">>, None)
     ELSE LET db1 == [db EXCEPT !.expenses =
                        MoveExpenses(@, category_id, other_category[1])]
          IN IF "delete" \in fail
             THEN Resp(500, db1, <<"existing", "other", "move", "delete">>, None)
             ELSE Resp(204,
                       [db1 EXCEPT !.categories =
                          SelectSeq(@, LAMBDA c : c.id # category_id)],
                       <<"existing", "other", "move", "delete">>, None)

(***************************************************************************)
(* app/routers/expenses.py                                                 *)
(***************************************************************************)
\* .select(...).eq('id', category_id).eq('user_id', user_id) has rows
CategoryOfUser(cats, category_id, user_id) ==
  \E i \in 1..Len(cats) : cats[i].id = category_id /\ cats[i].user_id = user_id

\* the verification answering 201 without the insert
CreateExpenseVerifiedNoInsert(db, user_id, expense_data, category_id, trace, resolved, fail) ==
  IF "verify" \in fail THEN Resp(500, db, Append(trace, "verify"), resolved)
  ELSE IF ~CategoryOfUser(db.categories, category_id, user_id)
  THEN Resp(400, db, Append(trace, "verify"), resolved)
  ELSE IF "insert" \in fail
  THEN Resp(500, db, trace \o <<"verify", "insert">>, resolved)
  ELSE Resp(201, db, trace \o <<"verify", "insert">>, resolved)

\* the part of create_expense from "Verify category belongs to user" on
\* the insert after a check that the category exists, whoever owns it
CreateExpenseVerifiedAnyOwner(db, user_id, expense_data, category_id, trace, resolved, fail) ==
  IF "verify" \in fail THEN Resp(500, db, Append(trace, "verify"), resolved)
  ELSE IF ~\E i \in 1..Len(db.categories) : db.categories[i].id = category_id
  THEN Resp(400, db, Append(trace, "verify"), resolved)
  ELSE IF "insert" \in fail
  THEN Resp(500, db, trace \o <<"verify", "insert">>, resolved)
  ELSE Resp(201,
            [db EXCEPT
               !.expenses = @ \cup
                  {[id |-> NewId("e", db.next_id.expenses),
                    user_id |-> user_id,
                    amount |-> expense_data.amount,
                    note |-> expense_data.note,
                    category_id |-> category_id]},
               !.next_id.expenses = @ + 1],
            trace \o <<"verify", "insert">>, resolved)

CreateExpenseVerified(db, user_id, expense_data, category_id, trace, resolved, fail) ==
  IF "verify" \in fail THEN Resp(500, db, Append(trace, "verify"), resolved)
  ELSE IF ~CategoryOfUser(db.categories, category_id, user_id)
  THEN Resp(400, db, Append(trace, "verify"), resolved)
  ELSE IF "insert" \in fail
  THEN Resp(500, db, trace \o <<"verify", "insert">>, resolved)
  ELSE Resp(201,
            [db EXCEPT
               !.expenses = @ \cup
                  {[id |-> NewId("e", db.next_id.expenses),
                    user_id |-> user_id,
                    amount |-> expense_data.amount,
                    note |-> expense_data.note,
                    category_id |-> category_id]},
               !.next_id.expenses = @ + 1],
            trace \o <<"verify", "insert">>, resolved)

\* the branch inserting without a category when the user has no "Other"
CreateExpenseResolvedUnchecked(db, user_id, expense_data, res, other_cat, fail) ==
  IF res.exc THEN Resp(500, db, res.trace, None)
  ELSE IF Truthy(res.val)
  THEN CreateExpenseVerified(db, user_id, expense_data, res.val,
                             res.trace, res.val, fail)
  ELSE IF "other" \in fail
  THEN Resp(500, db, Append(res.trace, "other"), res.val)
  ELSE IF other_cat = <<>>
  THEN Resp(201,
            [db EXCEPT
               !.expenses = @ \cup
                  {[id |-> NewId("e", db.next_id.expenses),
                    user_id |-> user_id,
                    amount |-> expense_data.amount,
                    note |-> expense_data.note,
                    category_id |-> None]},
               !.next_id.expenses = @ + 1],
            res.trace \o <<"other", "insert">>, res.val)
  ELSE CreateExpenseVerified(db, user_id, expense_data, other_cat[1],
                             Append(res.trace, "other"), res.val, fail)

\* the branch of create_expense without a category id, res being the outcome
\* of categorize_expense and other_cat the rows of the lookup of "Other"
CreateExpenseResolved(db, user_id, expense_data, res, other_cat, fail) ==
          IF res.exc THEN Resp(500, db, res.trace, None)
          ELSE IF Truthy(res.val)
          THEN CreateExpenseVerified(db, user_id, expense_data, res.val,
                                     res.trace, res.val, fail)
          ELSE IF "other" \in fail
          THEN Resp(500, db, Append(res.trace, "other"), res.val)
          ELSE IF other_cat = <<>>
          THEN Resp(400, db, Append(res.trace, "other"), res.val)
          ELSE CreateExpenseVerified(db, user_id, expense_data, other_cat[1],
                                     Append(res.trace, "other"), res.val, fail)

create_expense(db, user_id, expense_data, response, fail) ==
  IF Truthy(expense_data.category_id)
  THEN CreateExpenseVerified(db, user_id, expense_data,
                             expense_data.category_id, <<>>, None, fail)
  ELSE CreateExpenseResolved(db, user_id, expense_data,
         categorize_expense(expense_data.note, user_id, db.categories,
                            response, fail),
         OtherIds(db.categories, user_id), fail)

\* .update(update_data).eq('id', expense_id) on the expenses table
UpdateExpenseRows(exps, expense_id, amount, note, category_id) ==
  {IF e.id = expense_id
   THEN [e EXCEPT
           !.amount = IF amount # <<>> THEN amount[1] ELSE @,
           !.note = IF note # None THEN note ELSE @,
           !.category_id = IF category_id # None THEN category_id ELSE @]
   ELSE e : e \in exps}

\* update_expense, res being the outcome of categorize_expense when the note
\* changes and no category id is given
UpdateExpenseResolved(db, user_id, expense_id, expense_data, res, fail) ==
  LET recategorize == expense_data.note # None /\ expense_data.category_id = None
      explicit == expense_data.category_id # None
      trace == <<"existing">> \o res.trace
                 \o (IF explicit THEN <<"verify">> ELSE <<>>)
      \* update_data['category_id'], None when the key is not set
      new_category_id ==
        IF explicit THEN expense_data.category_id
        ELSE IF recategorize /\ Truthy(res.val) THEN res.val
        ELSE None
  IN IF "existing" \in fail THEN Resp(500, db, <<"existing">>, None)
     ELSE IF ~\E e \in db.expenses : e.id = expense_id /\ e.user_id = user_id
     THEN Resp(404, db, <<"existing">>, None)
     ELSE IF res.exc THEN Resp(500, db, <<"existing">> \o res.trace, None)
     ELSE IF explicit /\ "verify" \in fail THEN Resp(500, db, trace, res.val)
     ELSE IF /\ explicit
             /\ ~CategoryOfUser(db.categories, expense_data.category_id, user_id)
     THEN Resp(400, db, trace, res.val)
     ELSE IF /\ expense_data.amount = <<>>
             /\ expense_data.note = None
             /\ expense_data.category_id = None
     THEN Resp(400, db, trace, res.val)
     ELSE IF "update" \in fail THEN Resp(500, db, Append(trace, "update"), res.val)
     ELSE LET db1 == [db EXCEPT !.expenses =
                        UpdateExpenseRows(@, expense_id, expense_data.amount,
                                          expense_data.note, new_category_id)]
          IN IF "reselect" \in fail
             THEN Resp(500, db1, trace \o <<"update", "reselect">>, res.val)
             ELSE Resp(200, db1, trace \o <<"update", "reselect">>, res.val)

\* the update asking the resolver whenever the request carries a note
UpdateExpenseAlwaysResolving(db, user_id, expense_id, expense_data, response, fail) ==
  UpdateExpenseResolved(db, user_id, expense_id, expense_data,
    IF expense_data.note # None
    THEN categorize_expense(expense_data.note, user_id, db.categories,
                            response, fail)
    ELSE Returned(None, <<>>),
    fail)

update_expense(db, user_id, expense_id, expense_data, response, fail) ==
  UpdateExpenseResolved(db, user_id, expense_id, expense_data,
    IF expense_data.note # None /\ expense_data.category_id = None
    THEN categorize_expense(expense_data.note, user_id, db.categories,
                            response, fail)
    ELSE Returned(None, <<>>),
    fail)

\* the delete with no look at the owner of the expense
DeleteExpenseOfAnyone(db, user_id, expense_id, fail) ==
  IF "existing" \in fail THEN Resp(500, db, <<"existing">>, None)
  ELSE IF ~\E e \in db.expenses : e.id = expense_id
  THEN Resp(404, db, <<"existing">>, None)
  ELSE IF "delete" \in fail THEN Resp(500, db, <<"existing", "delete">>, None)
  ELSE Resp(204, [db EXCEPT !.expenses = {e \in @ : e.id # expense_id}],
            <<"existing", "delete">>, None)

delete_expense(db, user_id, expense_id, fail) ==
  IF "existing" \in fail THEN Resp(500, db, <<"existing">>, None)
  ELSE IF ~\E e \in db.expenses : e.id = expense_id /\ e.user_id = user_id
  THEN Resp(404, db, <<"existing">>, None)
  ELSE IF "delete" \in fail THEN Resp(500, db, <<"existing", "delete">>, None)
  ELSE Resp(204, [db EXCEPT !.expenses = {e \in @ : e.id # expense_id}],
            <<"existing", "delete">>, None)

(***************************************************************************)
(* The state machine.  One action per request handler; last records the    *)
(* request just served and what it did.                                    *)
(***************************************************************************)
NoResponse == [err |-> TRUE, content |-> None]

NoArgs ==
  [target |-> None, amount |-> <<>>, note |-> None, name |-> None,
   emoji |-> None, category_id |-> None, response |-> NoResponse]

Init ==
  /\ users = {}
  /\ categories = <<>>
  /\ expenses = {}
  /\ next_id = [users |-> 1, categories |-> 1, expenses |-> 1]
  /\ last = [op |-> "none", user |-> None, args |-> NoArgs, status |-> 0,
             trace |-> <<>>, failed |-> {}, resolved |-> None, written |-> {}]
  /\ nreq = 0
  /\ Sequential

\* the response r of handler op to the request of user with args
Serve(op, user, args, fail, r) ==
  /\ nreq' = nreq + 1
  /\ UNCHANGED <<foreign_keys, pending>>
  /\ users' = r.db.users
  /\ categories' = r.db.categories
  /\ expenses' = r.db.expenses
  /\ next_id' = r.db.next_id
  /\ last' = [op |-> op, user |-> user, args |-> args, status |-> r.status,
              trace |-> r.trace, failed |-> fail \cap Range(r.trace),
              resolved |-> r.resolved,
              written |-> {e.id : e \in r.db.expenses \ expenses}]

\* a request the framework rejects before the handler runs
Invalid(op, user, args) == Serve(op, user, args, {}, Resp(422, DB, <<>>, None))

UserIds == {u.id : u \in users}

\* the categories and expenses requests name: rows of either user by name,
\* and an id no row has
TargetNames == {"Food", "Other", "Misc", "Grocery", ""}
CategoryTargets ==
  {categories[i].id : i \in {j \in 1..Len(categories) :
                               categories[j].name \in TargetNames}} \cup {"c0"}
ExpenseTargets == {e.id : e \in expenses} \cup {"e0"}

Register(email, fail) ==
  Serve("register", None, [NoArgs EXCEPT !.name = email], fail,
        register(DB, email, fail))

CreateCategory(user, name, emoji, fail) ==
  LET data == CategoryCreate(name, emoji)
      args == [NoArgs EXCEPT !.name = name, !.emoji = emoji]
  IN IF data.valid
     THEN Serve("create_category", user, args, fail,
                create_category(DB, user, data, fail))
     ELSE Invalid("create_category", user, args)

UpdateCategory(user, category_id, name, emoji, fail) ==
  LET data == CategoryUpdate(name, emoji)
      args == [NoArgs EXCEPT !.target = category_id, !.name = name,
                             !.emoji = emoji]
  IN IF data.valid
     THEN Serve("update_category", user, args, fail,
                update_category(DB, user, category_id, data, fail))
     ELSE Invalid("update_category", user, args)

DeleteCategory(user, category_id, fail) ==
  Serve("delete_category", user, [NoArgs EXCEPT !.target = category_id], fail,
        delete_category(DB, user, category_id, fail))

CreateExpense(user, amount, note, category_id, response, fail) ==
  LET data == ExpenseCreate(amount, note, category_id)
      args == [NoArgs EXCEPT !.amount = <<amount>>, !.note = note,
                             !.category_id = category_id,
                             !.response = response]
  IN IF data.valid
     THEN Serve("create_expense", user, args, fail,
                create_expense(DB, user, data, response, fail))
     ELSE Invalid("create_expense", user, args)

UpdateExpense(user, expense_id, amount, note, category_id, response, fail) ==
  LET data == ExpenseUpdate(amount, note, category_id)
      args == [NoArgs EXCEPT !.target = expense_id, !.amount = amount,
                             !.note = note, !.category_id = category_id,
                             !.response = response]
  IN IF data.valid
     THEN Serve("update_expense", user, args, fail,
                update_expense(DB, user, expense_id, data, response, fail))
     ELSE Invalid("update_expense", user, args)

DeleteExpense(user, expense_id, fail) ==
  Serve("delete_expense", user, [NoArgs EXCEPT !.target = expense_id], fail,
        delete_expense(DB, user, expense_id, fail))

\* the remote classifier answers only a request that reaches it
ResponsesIf(called) == IF called THEN Responses ELSE {NoResponse}

\* the store calls on the path of a create or an update of an expense
CreateExpenseCalls(category_id) ==
  IF Truthy(category_id) THEN {"verify", "insert"}
  ELSE {"list1", "list2", "other", "verify", "insert"}
UpdateExpenseCalls(note, category_id) ==
  {"existing", "update", "reselect"}
    \cup (IF category_id # None THEN {"verify"} ELSE {})
    \cup (IF note # None /\ category_id = None THEN {"list1", "list2"} ELSE {})

\* requests are served one at a time, MaxRequests of them
Next ==
  \/ /\ nreq < MaxRequests
     /\ \E email \in Emails,
           fail \in FailSets({"check", "insert_user", "insert_categories"}) :
          Register(email, fail)
  \/ /\ nreq < MaxRequests
     /\ \E user \in UserIds, name \in RawNames, emoji \in {None} \cup NewEmojis,
           fail \in FailSets({"check", "insert"}) :
          CreateCategory(user, name, emoji, fail)
  \/ /\ nreq < MaxRequests
     /\ \E user \in UserIds, category_id \in CategoryTargets,
           name \in {None} \cup NewNames, emoji \in {None} \cup NewEmojis,
           fail \in FailSets({"existing", "name_check", "update"}) :
          UpdateCategory(user, category_id, name, emoji, fail)
  \/ /\ nreq < MaxRequests
     /\ \E user \in UserIds, category_id \in CategoryTargets,
           fail \in FailSets({"existing", "other", "move", "delete"}) :
          DeleteCategory(user, category_id, fail)
  \/ /\ nreq < MaxRequests
     /\ \E user \in UserIds, amount \in Amounts, note \in Notes,
           category_id \in {None} \cup CategoryTargets :
          \E response \in ResponsesIf(~Truthy(category_id)),
             fail \in FailSets(CreateExpenseCalls(category_id)) :
            CreateExpense(user, amount, note, category_id, response, fail)
  \/ /\ nreq < MaxRequests
     /\ \E user \in UserIds, expense_id \in ExpenseTargets,
           amount \in {<<>>} \cup {<<a>> : a \in Amounts},
           note \in {None} \cup Notes,
           category_id \in {None} \cup CategoryTargets :
          \E response \in ResponsesIf(note # None /\ category_id = None),
             fail \in FailSets(UpdateExpenseCalls(note, category_id)) :
            UpdateExpense(user, expense_id, amount, note, category_id,
                          response, fail)
  \/ /\ nreq < MaxRequests
     /\ \E user \in UserIds, expense_id \in ExpenseTargets,
           fail \in FailSets({"existing", "delete"}) :
          DeleteExpense(user, expense_id, fail)

Spec == Init /\ [][Next]_vars
(***************************************************************************)
(* Properties of the request handlers, on the last request under Spec.     *)
(***************************************************************************)
\* the last request is a create_expense the handler ran, with no category id
AutoCreate ==
  /\ last.op = "create_expense"
  /\ last.status # 422
  /\ ~Truthy(last.args.category_id)
\* the ids of the categories named "Other" of the user of the last request
OthersOfUser == OtherIds(categories, last.user)
\* the expense rows the last request wrote
Written == {e \in expenses : e.id \in last.written}

\* C7: create_expense without a category id calls the resolver; when the
\* resolver returns none it uses the id of the user's "Other"; when the user
\* has no "Other" it answers 400 and persists nothing; no expense is ever
\* persisted without a category id.
C7_AutoCategoryOrReject ==
  /\ \A e \in expenses : Truthy(e.category_id)
  /\ AutoCreate =>
       /\ "list1" \in Range(last.trace)
       /\ ~Truthy(last.resolved) => "other" \in Range(last.trace)
       /\ last.status = 201 =>
            \E e \in Written :
              e.category_id = IF Truthy(last.resolved) THEN last.resolved
                              ELSE OthersOfUser[1]
       /\ (/\ ~Truthy(last.resolved)
           /\ "other" \notin last.failed
           /\ OthersOfUser = <<>>) => (last.status = 400 /\ last.written = {})

\* both listings fail, the resolver returns none, and the expense is
\* persisted under the user's "Other"
C7_Witness ==
  /\ AutoCreate
  /\ last.failed = {"list1", "list2"}
  /\ last.resolved = None
  /\ last.status = 201
  /\ \E e \in Written : e.category_id = OthersOfUser[1]

\* C8: with a valid amount and note, no category id, an "Other" category of
\* the user and every store call succeeding, the expense is persisted
\* whatever the classifier does.
C8_PersistedWhateverClassifier ==
  (AutoCreate /\ last.failed = {} /\ OthersOfUser # <<>>)
    => /\ last.status = 201
       /\ \E e \in Written :
            /\ e.user_id = last.user
            /\ e.note = str_strip(last.args.note)
            /\ e.amount = Round2(last.args.amount[1])

\* the classifier raises, nothing scores, and the expense is persisted
C8_Witness ==
  /\ AutoCreate
  /\ last.failed = {}
  /\ last.args.response.err
  /\ last.args.note = "qq"
  /\ last.status = 201
  /\ \E e \in Written : e.category_id = OthersOfUser[1]

\* C9: every registered user owns exactly one category named "Other" after
\* any sequence of register, create, update and delete category requests.
C9_ExactlyOneOther ==
  \A u \in users : Len(OtherIds(categories, u.id)) = 1

\* C10: after any sequence of expense and category requests served one at a
\* time, the category_id of every expense is the id of an existing category
\* owned by the owner of the expense.
C10_NoOrphanExpense ==
  \A e \in expenses : CategoryOfUser(categories, e.category_id, e.user_id)

\* a category is deleted and the expense it held is moved to the user's
\* "Other"
C10_Witness ==
  /\ last.op = "delete_category"
  /\ last.status = 204
  /\ \E e \in Written :
       /\ e.user_id = last.user
       /\ e.category_id = OthersOfUser[1]

\* the request a step serves is one in which the resolver ran
Resolving(request) ==
  /\ request.op \in {"create_expense", "update_expense"}
  /\ "list1" \in Range(request.trace)

\* the name the table gives to the category id of the user, None without one
NameOfId(cats, user_id, category_id) ==
  IF CategoryOfUser(cats, category_id, user_id)
  THEN cats[CHOOSE i \in 1..Len(cats) : cats[i].id = category_id].name
  ELSE None

\* what the adapter gives a request's answer over the names the table holds
\* for its user
LabelOver(cats, request) ==
  _categorize_with_openai(request.args.note,
    DictKeys(NameToId(SelectCategories(cats, request.user), 1, <<>>)),
    request.args.response)

\* C17: the resolver keeps no cache of categories.  A resolution is the
\* resolver's result on the table as the store holds it when the request
\* starts: it returns nothing or the id of a row the user has then; the one
\* after a completed delete of C does not return C; and the one after a
\* completed rename returns the renamed category only when its new name is
\* the classifier's label, scores as a Keyword Table key, or is "Other".
C17_NoCategoryCache ==
  [][Resolving(last') =>
       /\ last'.resolved =
            categorize_expense(last'.args.note, last'.user, categories,
                               last'.args.response, last'.failed).val
       /\ \/ last'.resolved = None
          \/ CategoryOfUser(categories, last'.resolved, last'.user)
       /\ (last.op = "delete_category" /\ last.status = 204)
            => last'.resolved # last.args.target
       /\ (/\ last.op = "update_category"
           /\ last.status = 200
           /\ last.args.name # None
           /\ last'.resolved = last.args.target)
            => \/ LabelOver(categories, last')
                   = NameOfId(categories, last'.user, last.args.target)
               \/ ScorePositive(ScoreOf(_clean_text(last'.args.note),
                     NameOfId(categories, last'.user, last.args.target)))
               \/ NameOfId(categories, last'.user, last.args.target)
                   = "Other"]_vars

\* the third request of a user whose "Food" is gone from the table (deleted
\* by the second): the classifier answers "Food", which is no listed name any
\* more, and the lexical scorer ends at "Other"
C17_Witness ==
  /\ nreq = 3
  /\ AutoCreate
  /\ last.status = 201
  /\ last.args.response = [err |-> FALSE, content |-> "Food"]
  /\ Len(SelectCategories(categories, last.user)) = Len(default_categories) - 1
  /\ NameOfId(categories, last.user, "c1") = None
  /\ last.trace = <<"list1", "openai", "keywords", "verify", "insert">>
  /\ last.resolved = OthersOfUser[1]

\* the user has a category of that name other than the category except_id
NameTaken(cats, user_id, name, except_id) ==
  \E i \in 1..Len(cats) : /\ cats[i].user_id = user_id
                          /\ cats[i].name = name
                          /\ cats[i].id # except_id
\* no user has two categories of the same name
NoTwoOfOneName(cats) ==
  \A i, j \in 1..Len(cats) :
    (i # j /\ cats[i].user_id = cats[j].user_id) => cats[i].name # cats[j].name
\* the request was served to its end by store calls that all answered
ServedBy(request, op) ==
  request.op = op /\ request.status \notin {404, 422, 500}

\* C25: no user ever owns two categories of the same name (compared
\* exactly, case-sensitive): a create, or a rename, to a name the user has
\* on another category is answered 400 and leaves the store as it was.
C25_UniqueNamesPerUser ==
  [][/\ NoTwoOfOneName(categories')
     /\ (/\ ServedBy(last', "create_category")
         /\ NameTaken(categories, last'.user,
                      str_title(str_strip(last'.args.name)), None))
          => (last'.status = 400 /\ UNCHANGED <<users, categories, expenses>>)
     /\ (/\ ServedBy(last', "update_category")
         /\ last'.args.name # None
         /\ NameTaken(categories, last'.user, last'.args.name,
                      last'.args.target))
          => (last'.status = 400 /\ UNCHANGED <<users, categories, expenses>>)
    ]_vars

\* a rename of a category of the user to "Other", which the user has on
\* another category: answered 400 after the look at the names
C25_Witness ==
  /\ last.op = "update_category"
  /\ last.args.name = "Other"
  /\ last.status = 400
  /\ last.trace = <<"existing", "name_check">>
  /\ CategoryOfUser(categories, last.args.target, last.user)
  /\ NameOfId(categories, last.user, last.args.target) # "Other"
  /\ NameTaken(categories, last.user, "Other", last.args.target)
  /\ NoTwoOfOneName(categories)

\* the category of the expense, and how often the call was made
CategoryOfExpense(exps, expense_id) ==
  (CHOOSE e \in exps : e.id = expense_id).category_id
TimesCalled(trace, call) ==
  Cardinality({i \in 1..Len(trace) : trace[i] = call})
\* the update found the expense of its user
FoundExpense(request) ==
  /\ request.op = "update_expense"
  /\ request.status \notin {404, 422}
  /\ "existing" \notin request.failed

\* C27: in update_expense, a note without an explicit category makes one
\* call of the resolver with the new note, and the category of the expense
\* becomes the id resolved, or stays as it was when none is resolved; with
\* an explicit category the resolver is not called and the category becomes
\* the explicit one, which the user owns; without a note the resolver is not
\* called.
C27_UpdateResolution ==
  [][/\ (/\ FoundExpense(last')
         /\ last'.args.note # None
         /\ last'.args.category_id = None)
          => /\ TimesCalled(last'.trace, "list1") = 1
             /\ last'.resolved =
                  categorize_expense(last'.args.note, last'.user, categories,
                                     last'.args.response, last'.failed).val
             /\ last'.status = 200 =>
                  CategoryOfExpense(expenses', last'.args.target)
                    = IF last'.resolved # None THEN last'.resolved
                      ELSE CategoryOfExpense(expenses, last'.args.target)
     /\ (FoundExpense(last') /\ last'.args.category_id # None)
          => /\ TimesCalled(last'.trace, "list1") = 0
             /\ "openai" \notin Range(last'.trace)
             /\ last'.status = 200 =>
                  /\ CategoryOfExpense(expenses', last'.args.target)
                       = last'.args.category_id
                  /\ CategoryOfUser(categories, last'.args.category_id,
                                    last'.user)
     /\ (last'.op = "update_expense" /\ last'.args.note = None)
          => /\ TimesCalled(last'.trace, "list1") = 0
             /\ "openai" \notin Range(last'.trace)
    ]_vars

\* an expense filed under another category gets a note of utilities and no
\* category: the classifier's answer is no listed name, the lexical scorer
\* resolves "Utilities", and the expense moves there
C27_Witness ==
  /\ last.op = "update_expense"
  /\ last.status = 200
  /\ last.args.note = "electricity bill payment"
  /\ last.args.category_id = None
  /\ last.args.response = [err |-> FALSE, content |-> "Pizza"]
  /\ TimesCalled(last.trace, "list1") = 1
  /\ NameOfId(categories, last.user, last.resolved) = "Utilities"
  /\ CategoryOfExpense(expenses, last.args.target) = last.resolved
  /\ \E e \in expenses : e.id = last.args.target /\ e.note = last.args.note

ListingNames == {"Food", "Transport", "Utilities", "Other", "food", ""}
ContentsR == {"Food", " food\n", "FOOD", "Pizza", "", "Other"}
ResponsesR == {NoResponse} \cup {[err |-> FALSE, content |-> c] : c \in ContentsR}

\* the duplicate-free sequences of ListingNames of length n or less
RECURSIVE Listings(_)
Listings(n) ==
  IF n = 0 THEN {<<>>}
  ELSE Listings(n - 1) \cup
       UNION {{Append(l, name) : name \in ListingNames \ Range(l)} :
                l \in {k \in Listings(n - 1) : Len(k) = n - 1}}

\* the categories table holding listing for u1 between two rows of u2
TableOf(listing) ==
  <<[id |-> "c1", name |-> "Food", emoji |-> "plate", user_id |-> "u2"]>>
  \o [i \in 1..Len(listing) |->
        [id |-> NewId("c", i + 1), name |-> listing[i], emoji |-> "star",
         user_id |-> "u1"]]
  \o <<[id |-> NewId("c", Len(listing) + 2), name |-> "Other",
        emoji |-> "memo", user_id |-> "u2"]>>

InitR ==
  /\ users = {[id |-> "u1", email |-> "a@x.in"], [id |-> "u2", email |-> "b@x.in"]}
  /\ \E listing \in Listings(MaxListing) :
        /\ categories = TableOf(listing)
        /\ next_id = [users |-> 3, categories |-> Len(listing) + 3,
                      expenses |-> 1]
  /\ expenses = {}
  /\ last = [op |-> "none", user |-> None, args |-> NoArgs, status |-> 0,
             trace |-> <<>>, failed |-> {}, resolved |-> None, written |-> {}]
  /\ nreq = 0
  /\ Sequential

\* a call that inserts a category "Other" for its user when it returns
\* nothing
CallInsertingOther(op, user, note, response, fail, r) ==
  /\ nreq' = nreq + 1
  /\ UNCHANGED <<foreign_keys, pending>>
  /\ categories' =
       IF r.val = None
       THEN Append(categories,
                   [id |-> NewId("c", next_id.categories), name |-> "Other",
                    emoji |-> "box", user_id |-> user])
       ELSE categories
  /\ UNCHANGED <<users, expenses, next_id>>
  /\ last' = [op |-> op, user |-> user,
              args |-> [NoArgs EXCEPT !.note = note, !.response = response],
              status |-> IF r.exc THEN 500 ELSE 200,
              trace |-> r.trace, failed |-> fail \cap Range(r.trace),
              resolved |-> r.val, written |-> {}]

\* a call that returns r (status 200) or raises (status 500); the store is
\* left as the call leaves it, and no handler of the resolver writes to it
Call(op, user, note, response, fail, r) ==
  /\ nreq' = nreq + 1
  /\ UNCHANGED <<foreign_keys, pending>>
  /\ UNCHANGED <<users, categories, expenses, next_id>>
  /\ last' = [op |-> op, user |-> user,
              args |-> [NoArgs EXCEPT !.note = note, !.response = response],
              status |-> IF r.exc THEN 500 ELSE 200,
              trace |-> r.trace, failed |-> fail \cap Range(r.trace),
              resolved |-> r.val, written |-> {}]

Categorize(user, note, response, fail) ==
  Call("categorize", user, note, response, fail,
       categorize_expense(note, user, categories, response, fail))

\* the adapter called with the names of the user's listing
Classify(user, note, response) ==
  Call("classify", user, note, response, {},
       Returned(_categorize_with_openai(note,
                  DictKeys(NameToId(SelectCategories(categories, user), 1, <<>>)),
                  response),
                <<"openai">>))

NextR ==
  \/ /\ nreq = 0
     /\ \E user \in UserIds, note \in NotesR, response \in ResponsesR,
           fail \in FailSets({"list1", "list2"}) :
          Categorize(user, note, response, fail)
  \/ /\ nreq = 0
     /\ \E user \in UserIds, note \in NotesR, response \in ResponsesR :
          Classify(user, note, response)

SpecR == InitR /\ [][NextR]_vars

(***************************************************************************)
(* Properties of the resolver, on the last call under SpecR.               *)
(***************************************************************************)
\* the listing of the user of the last call, and the names in it
Listing == SelectCategories(categories, last.user)
NamesListed == [i \in 1..Len(Listing) |-> Listing[i].name]
IdNamed(name) ==
  Listing[CHOOSE i \in 1..Len(Listing) : Listing[i].name = name].id
\* what the adapter answers in the last call, and the lexical score of row i
Label ==
  _categorize_with_openai(last.args.note, NamesListed, last.args.response)
RowScore(i) == ScoreOf(CleanOf(last.args.note), Listing[i].name)
\* the last call is a call of the resolver whose first listing returned rows
ReachedClassifier ==
  last.op = "categorize" /\ "list1" \notin last.failed /\ Listing # <<>>

\* C1: when the classifier produces a label that is in the user's category
\* set, the resolver returns the id of that category and the lexical scorer
\* is never invoked.
C1_ClassifierLabelTaken ==
  (ReachedClassifier /\ Label # None /\ InSeq(Label, NamesListed))
    => /\ last.resolved = IdNamed(Label)
       /\ "keywords" \notin Range(last.trace)

\* C2: when the classifier fails or yields no label of the user's set, the
\* resolver returns the id of the category with the highest lexical score
\* above zero, the first in listing order among equal scores.
C2_BestLexicalScore ==
  (/\ ReachedClassifier
   /\ Label = None
   /\ \E i \in 1..Len(Listing) : ScorePositive(RowScore(i)))
    => \E i \in 1..Len(Listing) :
         /\ ScorePositive(RowScore(i))
         /\ \A j \in 1..Len(Listing) : ~ScoreGT(RowScore(j), RowScore(i))
         /\ \A j \in 1..(i - 1) : ScoreGT(RowScore(i), RowScore(j))
         /\ last.resolved = Listing[i].id

\* two categories score the same and the first listed is returned
C2_Witness ==
  /\ ReachedClassifier
  /\ Label = None
  /\ last.args.note = "gas"
  /\ Len(Listing) >= 2
  /\ Listing[1].name = "Utilities"
  /\ Listing[2].name = "Transport"
  /\ last.resolved = Listing[1].id

\* C3: when every lexical score is zero the resolver returns the id of the
\* category named exactly "Other" if the listing has one, and none otherwise.
C3_OtherWhenNothingScores ==
  (/\ ReachedClassifier
   /\ Label = None
   /\ \A i \in 1..Len(Listing) : ~ScorePositive(RowScore(i)))
    => last.resolved =
         IF InSeq("Other", NamesListed) THEN IdNamed("Other") ELSE None

C3_Witness ==
  /\ ReachedClassifier
  /\ Label = None
  /\ last.args.note = "completely unrelated gibberish"
  /\ Len(Listing) = 3
  /\ Listing[1].name = "Food"
  /\ Listing[3].name = "Other"
  /\ last.resolved = Listing[3].id

\* C4: the resolver never raises, whatever the store does on the first and
\* on the second listing and whatever the classifier does.
C4_ResolverNeverRaises == last.op = "categorize" => last.status = 200

\* both listings fail and the call still returns, with no category
C4_Witness ==
  /\ last.op = "categorize"
  /\ last.failed = {"list1", "list2"}
  /\ last.status = 200
  /\ last.resolved = None

\* C5: when the listing is empty the resolver returns none at once: no
\* classifier call, no lexical scoring, no second listing.
C5_EmptyListingReturnsAtOnce ==
  (last.op = "categorize" /\ "list1" \notin last.failed /\ Listing = <<>>)
    => (last.resolved = None /\ last.trace = <<"list1">>)

C5_Witness ==
  /\ last.op = "categorize"
  /\ last.user = "u1"
  /\ ~last.args.response.err
  /\ last.args.response.content = "Food"
  /\ Listing = <<>>
  /\ last.failed = {}
  /\ last.resolved = None
  /\ last.trace = <<"list1">>

\* C6: the adapter returns the stripped text when it is one of the allowed
\* names, else the first allowed name equal to it ignoring case, else
\* nothing; an error gives nothing; the result is nothing or an allowed name.
C6_AdapterResult ==
  last.op = "classify" =>
    /\ last.resolved = None \/ InSeq(last.resolved, NamesListed)
    /\ last.args.response.err => last.resolved = None
    /\ ~last.args.response.err =>
         LET text == str_strip(last.args.response.content)
             same == {i \in 1..Len(NamesListed) :
                        str_lower(NamesListed[i]) = str_lower(text)}
         IN IF InSeq(text, NamesListed) THEN last.resolved = text
            ELSE IF same # {}
            THEN \E i \in same : /\ \A j \in same : i <= j
                                 /\ last.resolved = NamesListed[i]
            ELSE last.resolved = None

\* the answer matches two names ignoring case and the first listed is taken
C6_Witness ==
  /\ last.op = "classify"
  /\ ~last.args.response.err
  /\ last.args.response.content = "FOOD"
  /\ InSeq("Food", NamesListed)
  /\ last.resolved = "food"

\* the last call is a call of the resolver whose first listing raised
Retried == last.op = "categorize" /\ "list1" \in last.failed

StepsIn(steps) ==
  Cardinality({i \in 1..Len(last.trace) : last.trace[i] \in steps})

\* the rows of a listing with the highest score above zero on a cleaned
\* note, the first of them only
BestRowsOf(listing, clean_note) ==
  {i \in 1..Len(listing) :
     /\ ScorePositive(ScoreOf(clean_note, listing[i].name))
     /\ \A j \in 1..Len(listing) :
          ~ScoreGT(ScoreOf(clean_note, listing[j].name),
                   ScoreOf(clean_note, listing[i].name))
     /\ \A j \in 1..(i - 1) :
          ScoreGT(ScoreOf(clean_note, listing[i].name),
                  ScoreOf(clean_note, listing[j].name))}

\* the lexical result over the listing: the best row, else "Other", else
\* nothing
LexicalOrOther ==
  LET listing == Listing
      best == BestRowsOf(listing, _clean_text(last.args.note))
  IN IF best # {} THEN listing[CHOOSE i \in best : TRUE].id
     ELSE IF InSeq("Other", NamesListed) THEN IdNamed("Other")
     ELSE None

\* C14: when the normal path raises (its listing fails) the resolver makes
\* exactly one further attempt, which reads the listing again and asks the
\* lexical scorer only; a listing of one row or more gives the lexical or
\* "Other" result over it, a failed or empty one gives none; no third
\* attempt is made, and no second one when the normal path did not raise.
C14_OneLexicalRetry ==
  last.op = "categorize" =>
    /\ StepsIn({"list1"}) = 1
    /\ StepsIn({"list2"}) = (IF Retried THEN 1 ELSE 0)
    /\ Retried =>
         /\ "openai" \notin Range(last.trace)
         /\ IF "list2" \notin last.failed /\ Listing # <<>>
            THEN /\ last.trace = <<"list1", "list2", "keywords">>
                 /\ last.resolved = LexicalOrOther
            ELSE /\ last.trace = <<"list1", "list2">>
                 /\ last.resolved = None

\* the first listing fails, the second returns "Utilities" before "Food";
\* the classifier would have answered "Food" and the lexical result is taken
C14_Witness ==
  /\ Retried
  /\ last.failed = {"list1"}
  /\ last.args.note = "gas"
  /\ last.args.response = [err |-> FALSE, content |-> "Food"]
  /\ Len(Listing) = 2
  /\ Listing[1].name = "Utilities"
  /\ Listing[2].name = "Food"
  /\ last.trace = <<"list1", "list2", "keywords">>
  /\ last.resolved = Listing[1].id

\* C15: in every execution of the resolver the remote classifier is called
\* at most once, the retry after a store error included, and a call that
\* failed or gave no usable label is not repeated.
C15_AtMostOneRemoteCall ==
  last.op = "categorize" =>
    /\ StepsIn({"openai"}) <= 1
    /\ Retried => StepsIn({"openai"}) = 0
    /\ (ReachedClassifier /\ Label = None) =>
         last.trace = <<"list1", "openai", "keywords">>

\* the remote call fails and the lexical scorer follows it at once
C15_Witness ==
  /\ ReachedClassifier
  /\ last.args.response.err
  /\ last.failed = {}
  /\ Len(Listing) = 1
  /\ Listing[1].name = "Transport"
  /\ last.args.note = "uber ride to office"
  /\ last.trace = <<"list1", "openai", "keywords">>
  /\ last.resolved = Listing[1].id

Rerun(response, fail) ==
  categorize_expense(last.args.note, last.user, categories, response, fail)

\* the listings that fail in the last call fail under fail as well, and no
\* other listing that is read does
SameStoreOutcome(fail) ==
  /\ "list1" \in fail <=> "list1" \in last.failed
  /\ "list1" \in fail => ("list2" \in fail <=> "list2" \in last.failed)

\* C19: resolution is a pure function of the note and the category
\* listing: any two executions on the same note and listing return the same
\* result.
C19_PureFunctionOfNoteAndListing ==
  last.op = "categorize" =>
    \A response \in ResponsesR, fail \in FailSets({"list1", "list2"}) :
      Rerun(response, fail).val = last.resolved

\* C19 as it holds: two executions on the same note and listing return the
\* same result when the classifier's adapter gives them the same label (or
\* none to both) and the same listing calls fail in both.
C19_SameLabelSameResult ==
  last.op = "categorize" =>
    LET names == NamesListed
        label == Label
    IN \A fail \in FailSets({"list1", "list2"}) :
         SameStoreOutcome(fail) =>
           \A response \in ResponsesR :
             _categorize_with_openai(last.args.note, names, response) = label
               => Rerun(response, fail).val = last.resolved

\* the classifier answers " food\n" and "Food" is returned; the execution
\* answered "FOOD" returns the same, the one left unanswered returns the
\* lexical result "Utilities"
C19_Witness ==
  /\ ReachedClassifier
  /\ last.args.note = "gas"
  /\ last.args.response = [err |-> FALSE, content |-> " food\n"]
  /\ Len(Listing) = 2
  /\ Listing[1].name = "Utilities"
  /\ Listing[2].name = "Food"
  /\ last.resolved = Listing[2].id
  /\ Rerun([err |-> FALSE, content |-> "FOOD"], {}).val = Listing[2].id
  /\ Rerun(NoResponse, {}).val = Listing[1].id

\* C22: a category whose name is not a key of the Keyword Table scores 0 for
\* every note; so when the classifier gives no valid label, the resolver
\* never returns a category whose name is not a key of the table, unless it
\* is the one named "Other".
C22_OnlyTableNamesOrOther ==
  last.op = "categorize" =>
    /\ \A i \in 1..Len(Listing) :
         Listing[i].name \notin DOMAIN category_keywords
           => ~ScorePositive(RowScore(i))
    /\ (last.resolved # None /\ ~(ReachedClassifier /\ Label # None))
         => \/ NameOfId(categories, last.user, last.resolved)
                 \in DOMAIN category_keywords
            \/ NameOfId(categories, last.user, last.resolved) = "Other"

\* a category named "food" is listed first and the note holds keywords of
\* "Food": the category scores nothing and "Other" is returned
C22_Witness ==
  /\ ReachedClassifier
  /\ Label = None
  /\ last.args.note = "lunch at restaurant"
  /\ Len(Listing) = 2
  /\ Listing[1].name = "food"
  /\ Listing[2].name = "Other"
  /\ ~ScorePositive(RowScore(1))
  /\ last.resolved = Listing[2].id

\* C29: an id the resolver returns is the id of a category in the listing
\* read from the store for that user during the same execution: the first
\* listing when it was read, the second on the retry after the first raised.
C29_ResolvedFromOwnListing ==
  (last.op = "categorize" /\ last.resolved # None)
    => /\ \E i \in 1..Len(categories) :
            /\ categories[i].id = last.resolved
            /\ categories[i].user_id = last.user
       /\ IF "list1" \in last.failed
          THEN /\ last.trace = <<"list1", "list2", "keywords">>
               /\ "list2" \notin last.failed
          ELSE /\ last.trace[1] = "list1"
               /\ "list2" \notin Range(last.trace)

\* the retry path of a user whose "Food" has an id other than that of the
\* "Food" of the other user
C29_Witness ==
  /\ last.op = "categorize"
  /\ last.user = "u1"
  /\ last.failed = {"list1"}
  /\ last.args.note = "lunch at restaurant"
  /\ Len(Listing) = 2
  /\ Listing[1].name = "Other"
  /\ Listing[2].name = "Food"
  /\ last.resolved = Listing[2].id
  /\ last.resolved # "c1"
  /\ categories[1].id = "c1" /\ categories[1].name = "Food"

(***************************************************************************)
(* _clean_text on its own: every text of up to MaxTextLen characters of    *)
(* TextAlphabet (a lowercase and an uppercase letter, a digit, the         *)
(* underscore, two kinds of whitespace and two punctuation marks), and one *)
(* call on it.                                                             *)
(***************************************************************************)
MaxTextLen == 3
TextAlphabet == {"a", "B", "7", "_", " ", "\t", "-", "!"}

RECURSIVE TextsOfLen(_)
TextsOfLen(n) ==
  IF n = 0 THEN {""}
  ELSE {t \o c : t \in TextsOfLen(n - 1), c \in TextAlphabet}
Texts == UNION {TextsOfLen(n) : n \in 0..MaxTextLen}

InitT ==
  /\ users = {}
  /\ categories = <<>>
  /\ expenses = {}
  /\ next_id = [users |-> 1, categories |-> 1, expenses |-> 1]
  /\ \E text \in Texts :
        last = [op |-> "none", user |-> None,
                args |-> [NoArgs EXCEPT !.note = text], status |-> 0,
                trace |-> <<>>, failed |-> {}, resolved |-> None,
                written |-> {}]
  /\ nreq = 0
  /\ Sequential

CleanText ==
  /\ nreq = 0
  /\ Call("clean_text", None, last.args.note, NoResponse, {},
          Returned(_clean_text(last.args.note), <<>>))

NextT == CleanText

SpecT == InitT /\ [][NextT]_vars

\* C11: _clean_text returns for every input string, and cleaning its result
\* again changes nothing.
C11_CleanTextIdempotent ==
  /\ nreq = 1 => (last.op = "clean_text" /\ last.status = 200)
  /\ last.op = "clean_text" => _clean_text(last.resolved) = last.resolved

\* an input with an uppercase letter, punctuation and trailing whitespace
C11_Witness ==
  /\ last.op = "clean_text"
  /\ last.args.note = "B- "
  /\ last.resolved = "b"
  /\ _clean_text(last.resolved) = "b"

\* C20: _clean_text replaces every character that is not a letter, a digit
\* or whitespace with a space, so its result consists only of lowercase
\* letters, digits and single spaces.
C20_OnlyLettersDigitsSpaces ==
  last.op = "clean_text" =>
    /\ \A i \in 1..Len(last.resolved) :
         \/ IsLower(Char(last.resolved, i))
         \/ Char(last.resolved, i) \in Chars(DIGITS)
         \/ Char(last.resolved, i) = " "
    /\ \A i \in 1..(Len(last.resolved) - 1) :
         ~(Char(last.resolved, i) = " " /\ Char(last.resolved, i + 1) = " ")

(***************************************************************************)
(* Category suggestions: get_category_suggestions and its remote variant.  *)
(* A float the code handles is kept as the exact decimal num/den with den  *)
(* a power of ten and no trailing zero, so that 150.0 and 150 are equal as *)
(* they are in Python.                                                     *)
(***************************************************************************)
RECURSIVE Dec(_, _)
Dec(num, den) ==
  IF den > 1 /\ num % 10 = 0 THEN Dec(num \div 10, den \div 10)
  ELSE [num |-> num, den |-> den]

\* rounding to the nearest integer with a tie going up
RoundHalfUp(num, den) ==
  IF 2 * (num % den) >= den THEN (num \div den) + 1 ELSE num \div den

\* round(): to the nearest integer, a tie going to the even neighbour.  The
\* only ties that score * 100 can have in tenths are at scores of odd/16,
\* which floats hold exactly.
RoundHalfEven(num, den) ==
  IF 2 * (num % den) > den THEN (num \div den) + 1
  ELSE IF 2 * (num % den) < den THEN num \div den
  ELSE IF (num \div den) % 2 = 0 THEN num \div den
  ELSE (num \div den) + 1

\* round(score * 100, 1)
Confidence(score) == Dec(RoundHalfEven(score.num * 1000, score.den), 10)

Suggestion(name, confidence) == [name |-> name, confidence |-> confidence]

\* the loop over category_keywords.items(): the categories scoring above
\* zero with their scores, in the table's order
RECURSIVE SuggestionScores(_, _, _)
SuggestionScores(clean_note, i, category_scores) ==
  IF i > Len(keyword_categories) THEN category_scores
  ELSE SuggestionScores(clean_note, i + 1,
         PutIfPositive(category_scores, keyword_categories[i],
                       ScoreOf(clean_note, keyword_categories[i])))

InsertAt(seq, item, k) ==
  SubSeq(seq, 1, k) \o <<item>> \o SubSeq(seq, k + 1, Len(seq))

\* a sort that puts an item before the earlier items of the same score
SortedByScoreUnstable(items, n) ==
  LET F[k \in 0..n] ==
        IF k = 0 THEN <<>>
        ELSE InsertAt(F[k - 1], items[k],
                      Cardinality({j \in 1..(k - 1) :
                                     ScoreGT(F[k - 1][j].val, items[k].val)}))
  IN F[n]

\* sorted(items, key=score, reverse=True): descending and stable, items of
\* the same score keep the order they came in
SortedByScore(items, n) ==
  LET F[k \in 0..n] ==
        IF k = 0 THEN <<>>
        ELSE InsertAt(F[k - 1], items[k],
                      Cardinality({j \in 1..(k - 1) :
                                     ~ScoreGT(items[k].val, F[k - 1][j].val)}))
  IN F[n]

MAX_SUGGESTIONS == 3

FirstOf(seq, n) == SubSeq(seq, 1, IF Len(seq) < n THEN Len(seq) ELSE n)

SuggestionsOf(sorted_categories) ==
  [i \in 1..Len(sorted_categories) |->
     Suggestion(sorted_categories[i].key,
                Confidence(sorted_categories[i].val))]

SuggestTop(category_scores) ==
  SuggestionsOf(FirstOf(SortedByScore(category_scores, Len(category_scores)),
                        MAX_SUGGESTIONS))

get_category_suggestions(note) ==
  SuggestTop(SuggestionScores(CleanOf(note), 1, <<>>))

\* str.split(sep) with a separator of one character
RECURSIVE SplitOnFrom(_, _, _)
SplitOnFrom(s, sep, piece) ==
  IF s = "" THEN <<piece>>
  ELSE IF Head(s) = sep THEN <<piece>> \o SplitOnFrom(Tail(s), sep, "")
  ELSE SplitOnFrom(Tail(s), sep, piece \o Head(s))
str_split_on(s, sep) == SplitOnFrom(s, sep, "")

DigitValue(c) == CHOOSE d \in 0..9 : Char(DIGITS, d + 1) = c

\* the value of digits with at most one point in them; den is the power of
\* ten reached since the point
RECURSIVE DecimalOf(_, _, _, _)
DecimalOf(s, num, den, seen) ==
  IF s = "" THEN [num |-> num, den |-> den]
  ELSE IF Head(s) = "." THEN DecimalOf(Tail(s), num, den, TRUE)
  ELSE DecimalOf(Tail(s), num * 10 + DigitValue(Head(s)),
                 IF seen THEN den * 10 ELSE den, seen)

IsDecimal(s) ==
  /\ \A i \in 1..Len(s) : Char(s, i) \in Chars(DIGITS) \cup {"."}
  /\ \E i \in 1..Len(s) : Char(s, i) \in Chars(DIGITS)
  /\ Cardinality({i \in 1..Len(s) : Char(s, i) = "."}) <= 1

Unsigned(s) ==
  IF s # "" /\ Head(s) \in {"+", "-"} THEN Tail(s) ELSE s

SignedDec(s, d) ==
  Dec(IF Head(s) = "-" THEN 0 - d.num ELSE d.num, d.den)

\* float(s) on a stripped string: <<value>>, or <<>> for the ValueError.
\* The decimal forms are read (sign, digits, one point); exponents,
\* underscores, inf and nan, which float() also reads, are text no response
\* of the model carries.
float(s) ==
  IF IsDecimal(Unsigned(s))
  THEN <<SignedDec(s, DecimalOf(Unsigned(s), 0, 1, FALSE))>>
  ELSE <<>>

\* the try around float(): append the entry, or continue on ValueError
AppendParsed(category, confidence) ==
  IF confidence = <<>> THEN <<>>
  ELSE <<Suggestion(category, confidence[1])>>

\* one pass of the loop over lines once the line is split at its colons
ParseParts(parts) ==
  IF Len(parts) = 2
  THEN AppendParsed(str_strip(parts[1]), float(str_strip(parts[2])))
  ELSE <<>>

ParseLine(line) ==
  IF Contains(line, ":") THEN ParseParts(str_split_on(line, ":")) ELSE <<>>

RECURSIVE ParseLines(_, _)
ParseLines(lines, i) ==
  IF i > Len(lines) THEN <<>>
  ELSE ParseLine(lines[i]) \o ParseLines(lines, i + 1)

MAX_LINES == 3

\* the loop with no cut of the lines it reads
SuggestionsOrKeywordsAllLines(lines, note) ==
  IF ParseLines(lines, 1) # <<>>
  THEN ParseLines(lines, 1)
  ELSE get_category_suggestions(note)

\* for line in lines[:3] ... return suggestions if suggestions else
\* self.get_category_suggestions(note)
SuggestionsOrKeywords(lines, note) ==
  IF ParseLines(FirstOf(lines, MAX_LINES), 1) # <<>>
  THEN ParseLines(FirstOf(lines, MAX_LINES), 1)
  ELSE get_category_suggestions(note)

\* The remote call raising, and a response without content (.strip() on
\* None raises AttributeError), both end in the except branch.
get_category_suggestions_with_openai(note, response) ==
  IF response.err \/ response.content = None
  THEN get_category_suggestions(note)
  ELSE SuggestionsOrKeywords(
         str_split_on(str_strip(response.content), "\n"), note)

(***************************************************************************)
(* The suggestions on their own: SpecS starts with a note of NotesS and    *)
(* makes one call of either function, the remote one with a response of    *)
(* ResponsesS.                                                             *)
(***************************************************************************)
ContentsS ==
  {"Food:85\nOther:5", "Food:high", "Food", "", "a:b:c",
   "Food:85\nX:1\nY:2.5\nZ:3", "junk\njunk\njunk\nFood:5",
   "junk\nFood:90\nGrocery: 7.50\nOther:1", " Food : 85 \n",
   "Food:-5", ":5", None}
ResponsesS == {NoResponse} \cup {[err |-> FALSE, content |-> c] : c \in ContentsS}

InitS ==
  /\ users = {}
  /\ categories = <<>>
  /\ expenses = {}
  /\ next_id = [users |-> 1, categories |-> 1, expenses |-> 1]
  /\ \E note \in NotesS :
        last = [op |-> "none", user |-> None,
                args |-> [NoArgs EXCEPT !.note = note], status |-> 0,
                trace |-> <<>>, failed |-> {}, resolved |-> None,
                written |-> {}]
  /\ nreq = 0
  /\ Sequential

Suggest ==
  /\ nreq = 0
  /\ Call("suggest", None, last.args.note, NoResponse, {},
          Returned(get_category_suggestions(last.args.note), <<>>))

SuggestWithOpenai ==
  /\ nreq = 0
  /\ \E response \in ResponsesS :
        Call("suggest_with_openai", None, last.args.note, response, {},
             Returned(get_category_suggestions_with_openai(last.args.note,
                                                           response),
                      <<"openai">>))

NextS ==
  \/ Suggest
  \/ SuggestWithOpenai

SpecS == InitS /\ [][NextS]_vars

(***************************************************************************)
(* Properties of the suggestions.                                          *)
(***************************************************************************)
KeywordIndex(name) ==
  CHOOSE i \in 1..Len(keyword_categories) : keyword_categories[i] = name

\* the Keyword Table categories scoring above zero on a cleaned note
Scoring(clean_note) ==
  {c \in Range(keyword_categories) : ScorePositive(ScoreOf(clean_note, c))}

\* the ranking: higher score first, and on equal scores the category the
\* Keyword Table holds first
RanksBefore(clean_note, a, b) ==
  \/ ScoreGT(ScoreOf(clean_note, a), ScoreOf(clean_note, b))
  \/ /\ ~ScoreGT(ScoreOf(clean_note, b), ScoreOf(clean_note, a))
     /\ KeywordIndex(a) < KeywordIndex(b)

SuggestedNames == {last.resolved[i].name : i \in 1..Len(last.resolved)}

\* C12: get_category_suggestions returns at most 3 entries, all of them
\* Keyword Table categories scoring above zero on the cleaned note, in
\* descending order of score with equal scores in the table's order, each
\* with confidence round(score * 100, 1), and they are exactly the top of
\* that ranking.
C12_TopThreeRanked ==
  last.op = "suggest" =>
    LET clean_note == _clean_text(last.args.note)
        n == Len(last.resolved)
    IN /\ last.status = 200
       /\ n <= 3
       /\ n = Cardinality(Scoring(clean_note)) \/ n = 3
       /\ \A i \in 1..n :
            /\ last.resolved[i].name \in Scoring(clean_note)
            /\ last.resolved[i].confidence
                 = Confidence(ScoreOf(clean_note, last.resolved[i].name))
       /\ \A i, j \in 1..n :
            i < j => RanksBefore(clean_note, last.resolved[i].name,
                                 last.resolved[j].name)
       /\ \A c \in Scoring(clean_note) \ SuggestedNames :
            \A i \in 1..n : RanksBefore(clean_note, last.resolved[i].name, c)

\* a note of eight words on which seven categories score, the third and the
\* fourth of the ranking equally (3/16), and two confidences fall between
\* two tenths: 43.75 and 18.75
C12_Witness ==
  /\ last.op = "suggest"
  /\ last.args.note = "paid uber for the ride to office today"
  /\ Cardinality(Scoring(last.args.note)) = 7
  /\ ScoreOf(last.args.note, "Shopping") = ScoreOf(last.args.note, "Healthcare")
  /\ last.resolved = << Suggestion("Grocery", Dec(438, 10)),
                        Suggestion("Transport", Dec(375, 10)),
                        Suggestion("Shopping", Dec(188, 10)) >>

\* the remote call failed, or no line at all of its response parses as
\* name:score
NothingParseable(response) ==
  \/ response.err
  \/ response.content = None
  \/ ParseLines(str_split_on(str_strip(response.content), "\n"), 1) = <<>>

\* C13: get_category_suggestions_with_openai never raises and returns at
\* most 3 entries; when the remote call fails or its response has no
\* parseable line, the result is that of get_category_suggestions(note).
C13_AtMostThreeOrKeywords ==
  /\ (nreq = 1 /\ last.op # "suggest") =>
        (last.op = "suggest_with_openai" /\ last.status = 200)
  /\ last.op = "suggest_with_openai" =>
        /\ Len(last.resolved) <= 3
        /\ NothingParseable(last.args.response) =>
              last.resolved = get_category_suggestions(last.args.note)

\* a response whose only line has no number after the colon, on a note
\* with two keyword suggestions
C13_Witness ==
  /\ last.op = "suggest_with_openai"
  /\ last.args.note = "gas"
  /\ last.args.response = [err |-> FALSE, content |-> "Food:high"]
  /\ last.resolved = << Suggestion("Transport", Dec(150, 1)),
                        Suggestion("Utilities", Dec(150, 1)) >>

\* the lines of the response of the last call, and the entries of those
\* that parse
LinesAnswered == str_split_on(str_strip(last.args.response.content), "\n")
ParsedAnswered == ParseLines(LinesAnswered, 1)

\* C24: when the response has parseable lines, the result is the first three
\* parseable lines in order: the cap of 3 is on results, so a line that does
\* not parse among the first three does not drop a later one that does.
C24_FirstThreeParseable ==
  (last.op = "suggest_with_openai" /\ ~NothingParseable(last.args.response))
    => last.resolved = FirstOf(ParsedAnswered, 3)

\* what the code does: the result is read from the first three lines, and
\* is that of get_category_suggestions when none of them parses
FirstThreeLinesRead ==
  (last.op = "suggest_with_openai" /\ ~NothingParseable(last.args.response))
    => last.resolved =
         IF ParseLines(FirstOf(LinesAnswered, 3), 1) # <<>>
         THEN ParseLines(FirstOf(LinesAnswered, 3), 1)
         ELSE get_category_suggestions(last.args.note)

(***************************************************************************)
(* Overlapping requests.  SpecC runs one delete_category, one              *)
(* create_expense and one update_expense of the same user side by side,    *)
(* each a sequence of steps of one store call: the handlers open no        *)
(* transaction, every .execute() is a request of its own to the store.     *)
(* The delete is of the category "Food"; the other two name it, or leave   *)
(* the category to the resolver, with a note and an answer that lead to it *)
(* or, for create_expense, a note that leads nowhere.                      *)
(* The store either enforces the references of the printed schema          *)
(* (expenses.category_id REFERENCES categories(id)) or was created without *)
(* them; no code of the repository creates the tables.                     *)
(***************************************************************************)
UserC == "u1"
CategoryC == "c1"
ExpenseC == "e1"
NoteC == "lunch at restaurant"
AmountC == [r |-> 120, m |-> 500]

\* a write of expense rows that the references reject
RejectsExpenses(written) ==
  /\ foreign_keys
  /\ \E e \in written :
       ~\E i \in 1..Len(categories) : categories[i].id = e.category_id

\* the delete of a category row that the references reject
RejectsDelete(category_id) ==
  foreign_keys /\ \E e \in expenses : e.category_id = category_id

Done(request, status) == [request EXCEPT !.pc = "done", !.status = status]

InitC ==
  /\ users = {[id |-> UserC, email |-> "a@x.in"]}
  /\ \E second \in {"Other", "Misc"} :
        categories =
          << [id |-> CategoryC, name |-> "Food", emoji |-> "plate",
              user_id |-> UserC],
             [id |-> "c2", name |-> second, emoji |-> "memo",
              user_id |-> UserC] >>
  /\ expenses = {[id |-> ExpenseC, user_id |-> UserC, amount |-> AmountC,
                  note |-> "qq", category_id |-> CategoryC]}
  /\ next_id = [users |-> 2, categories |-> 3, expenses |-> 2]
  /\ last = [op |-> "none", user |-> None, args |-> NoArgs, status |-> 0,
             trace |-> <<>>, failed |-> {}, resolved |-> None, written |-> {}]
  /\ nreq = 0
  /\ foreign_keys \in BOOLEAN
  /\ \E named \in [create : BOOLEAN, update : BOOLEAN],
        response \in {NoResponse, [err |-> FALSE, content |-> "Food"]},
        note \in {NoteC, "qq"} :
        pending =
          [delete |-> [pc |-> "existing", status |-> 0, other_id |-> None],
           create |-> [pc |-> IF named.create THEN "verify" ELSE "resolve",
                       status |-> 0,
                       note |-> IF named.create THEN NoteC ELSE note,
                       category_id |-> IF named.create THEN CategoryC ELSE None,
                       response |-> response],
           update |-> [pc |-> "existing", status |-> 0,
                       note |-> IF named.update THEN None ELSE NoteC,
                       category_id |-> IF named.update THEN CategoryC ELSE None,
                       new_category_id |-> None,
                       response |-> response]]

StoreUnchanged == UNCHANGED <<users, categories, expenses, next_id>>
Fixed == UNCHANGED <<last, nreq, foreign_keys>>

\* delete_category: the select of the category
DeleteExisting ==
  /\ pending.delete.pc = "existing"
  /\ pending' =
       [pending EXCEPT !.delete =
          IF ~CategoryOfUser(categories, CategoryC, UserC) THEN Done(@, 404)
          ELSE IF NameOfId(categories, UserC, CategoryC) = "Other"
          THEN Done(@, 400)
          ELSE [@ EXCEPT !.pc = "other"]]
  /\ StoreUnchanged /\ Fixed

\* delete_category: the select of the id of "Other"
DeleteOther ==
  /\ pending.delete.pc = "other"
  /\ pending' =
       [pending EXCEPT !.delete =
          IF OtherIds(categories, UserC) = <<>> THEN Done(@, 500)
          ELSE [@ EXCEPT !.pc = "move",
                         !.other_id = OtherIds(categories, UserC)[1]]]
  /\ StoreUnchanged /\ Fixed

\* delete_category: the update moving the expenses to "Other"
DeleteMove ==
  /\ pending.delete.pc = "move"
  /\ expenses' = MoveExpenses(expenses, CategoryC, pending.delete.other_id)
  /\ pending' = [pending EXCEPT !.delete.pc = "delete"]
  /\ UNCHANGED <<users, categories, next_id>> /\ Fixed

\* delete_category: the delete of the row; the handler answers 500 when the
\* store raises or returns no row
DeleteRow ==
  /\ pending.delete.pc = "delete"
  /\ IF RejectsDelete(CategoryC)
        \/ ~\E i \in 1..Len(categories) : categories[i].id = CategoryC
     THEN /\ pending' = [pending EXCEPT !.delete = Done(@, 500)]
          /\ UNCHANGED categories
     ELSE /\ pending' = [pending EXCEPT !.delete = Done(@, 204)]
          /\ categories' = SelectSeq(categories, LAMBDA c : c.id # CategoryC)
  /\ UNCHANGED <<users, expenses, next_id>> /\ Fixed

\* create_expense without a category id: the resolver, whose one store call
\* when nothing fails is its listing
CreateResolve ==
  /\ pending.create.pc = "resolve"
  /\ pending' =
       [pending EXCEPT !.create =
          IF Truthy(categorize_expense(pending.create.note, UserC, categories,
                                       pending.create.response, {}).val)
          THEN [@ EXCEPT !.pc = "verify",
                         !.category_id =
                           categorize_expense(pending.create.note, UserC, categories,
                                              pending.create.response, {}).val]
          ELSE [@ EXCEPT !.pc = "other"]]
  /\ StoreUnchanged /\ Fixed

\* create_expense: the select of the id of "Other" when nothing was resolved
CreateOther ==
  /\ pending.create.pc = "other"
  /\ pending' =
       [pending EXCEPT !.create =
          IF OtherIds(categories, UserC) = <<>> THEN Done(@, 400)
          ELSE [@ EXCEPT !.pc = "verify",
                         !.category_id = OtherIds(categories, UserC)[1]]]
  /\ StoreUnchanged /\ Fixed

\* create_expense: the select verifying that the category is the user's
CreateVerify ==
  /\ pending.create.pc = "verify"
  /\ pending' =
       [pending EXCEPT !.create =
          IF CategoryOfUser(categories, pending.create.category_id, UserC)
          THEN [@ EXCEPT !.pc = "insert"]
          ELSE Done(@, 400)]
  /\ StoreUnchanged /\ Fixed

NewExpense(category_id) ==
  [id |-> NewId("e", next_id.expenses), user_id |-> UserC,
   amount |-> AmountC, note |-> pending.create.note,
   category_id |-> category_id]

\* create_expense: the insert
CreateInsert ==
  /\ pending.create.pc = "insert"
  /\ IF RejectsExpenses({NewExpense(pending.create.category_id)})
     THEN /\ pending' = [pending EXCEPT !.create = Done(@, 500)]
          /\ UNCHANGED <<expenses, next_id>>
     ELSE /\ pending' = [pending EXCEPT !.create = Done(@, 201)]
          /\ expenses' = expenses \cup {NewExpense(pending.create.category_id)}
          /\ next_id' = [next_id EXCEPT !.expenses = @ + 1]
  /\ UNCHANGED <<users, categories>> /\ Fixed

\* update_expense: the select of the expense
UpdateExisting ==
  /\ pending.update.pc = "existing"
  /\ pending' =
       [pending EXCEPT !.update =
          IF ~\E e \in expenses : e.id = ExpenseC /\ e.user_id = UserC
          THEN Done(@, 404)
          ELSE [@ EXCEPT !.pc = IF pending.update.category_id = None THEN "resolve"
                                ELSE "verify"]]
  /\ StoreUnchanged /\ Fixed

\* update_expense with a note and no category id: the resolver; what it
\* returns goes into update_data when it is not None
UpdateResolve ==
  /\ pending.update.pc = "resolve"
  /\ pending' =
       [pending EXCEPT !.update =
          [@ EXCEPT !.pc = "update",
                    !.new_category_id =
                      IF Truthy(categorize_expense(pending.update.note, UserC, categories,
                                                   pending.update.response, {}).val)
                      THEN categorize_expense(pending.update.note, UserC, categories,
                                              pending.update.response, {}).val
                      ELSE None]]
  /\ StoreUnchanged /\ Fixed

\* update_expense with a category id: the select verifying it
UpdateVerify ==
  /\ pending.update.pc = "verify"
  /\ pending' =
       [pending EXCEPT !.update =
          IF CategoryOfUser(categories, pending.update.category_id, UserC)
          THEN [@ EXCEPT !.pc = "update", !.new_category_id = pending.update.category_id]
          ELSE Done(@, 400)]
  /\ StoreUnchanged /\ Fixed

UpdatedExpenses ==
  UpdateExpenseRows(expenses, ExpenseC, <<>>, pending.update.note,
                    pending.update.new_category_id)

\* update_expense: the update of the row
UpdateRow ==
  /\ pending.update.pc = "update"
  /\ IF RejectsExpenses(UpdatedExpenses \ expenses)
     THEN /\ pending' = [pending EXCEPT !.update = Done(@, 500)]
          /\ UNCHANGED expenses
     ELSE /\ pending' = [pending EXCEPT !.update.pc = "reselect"]
          /\ expenses' = UpdatedExpenses
  /\ UNCHANGED <<users, categories, next_id>> /\ Fixed

\* update_expense: the select of the updated expense for the response
UpdateReselect ==
  /\ pending.update.pc = "reselect"
  /\ pending' = [pending EXCEPT !.update = Done(@, 200)]
  /\ StoreUnchanged /\ Fixed

NextC ==
  \/ DeleteExisting
  \/ DeleteOther
  \/ DeleteMove
  \/ DeleteRow
  \/ CreateResolve
  \/ CreateOther
  \/ CreateVerify
  \/ CreateInsert
  \/ UpdateExisting
  \/ UpdateResolve
  \/ UpdateVerify
  \/ UpdateRow
  \/ UpdateReselect

SpecC == InitC /\ [][NextC]_vars

NoOrphanWithForeignKeys ==
  (foreign_keys /\ pending.delete.pc = "done" /\ pending.delete.status = 204)
    => \A e \in expenses : e.category_id # CategoryC


(***************************************************************************)
(* The lexical scorer on its own: SpecK starts with a cleaned note of      *)
(* NotesK and a category name of NamesK, and makes one call of             *)
(* _calculate_category_score on them.                                      *)
(***************************************************************************)
\* cleaned notes: the notes of the repository's tests, the empty note, a
\* note of one letter and a note with a keyword of two words
NotesK ==
  {"", "a", "qq", "gas", "lunch at restaurant", "food delivery",
   "random text without food keywords", "grocery shopping",
   "coffee and snacks", "ordered from swiggy", "pizza delivery",
   "breakfast at hotel", "uber eats order"}
\* the keys of the table, and names that are not keys of it
NamesK == DOMAIN category_keywords \cup {"Other", "food", "Misc", ""}

InitK ==
  /\ users = {}
  /\ categories = <<>>
  /\ expenses = {}
  /\ next_id = [users |-> 1, categories |-> 1, expenses |-> 1]
  /\ \E note \in NotesK, category_name \in NamesK :
        last = [op |-> "none", user |-> None,
                args |-> [NoArgs EXCEPT !.note = note, !.name = category_name],
                status |-> 0, trace |-> <<>>, failed |-> {},
                resolved |-> None, written |-> {}]
  /\ nreq = 0
  /\ Sequential

CalculateCategoryScore ==
  /\ nreq = 0
  /\ nreq' = 1
  /\ last' = [last EXCEPT
                !.op = "score", !.status = 200,
                !.resolved = _calculate_category_score(last.args.note,
                                                       last.args.name)]
  /\ UNCHANGED <<users, categories, expenses, next_id, foreign_keys, pending>>

NextK == CalculateCategoryScore

SpecK == InitK /\ [][NextK]_vars

(***************************************************************************)
(* Properties of the lexical scorer, on the call under SpecK.              *)
(***************************************************************************)
\* the tokens of the note scored, the keywords of the category scored, the
\* keywords that occur in the note and the keywords that some token
\* contains or is contained in
TokensK == str_split(last.args.note)
KeywordsK == category_keywords[last.args.name]
OccurringK == {i \in 1..Len(KeywordsK) : Contains(last.args.note, KeywordsK[i])}
PartialK ==
  {i \in 1..Len(KeywordsK) :
     \E j \in 1..Len(TokensK) : \/ Contains(TokensK[j], KeywordsK[i])
                                \/ Contains(KeywordsK[i], TokensK[j])}

C23_NoMatchScoresZero ==
  (/\ last.op = "score"
   /\ last.args.note = "random text without food keywords"
   /\ last.args.name = "Food")
    => last.resolved.num = 0

\* what the code returns for that note and category: the keyword "food"
\* occurs in the note and is a token of it, and the token "food" is part of
\* the keyword "foodpanda": 2.0 over five tokens
NoMatchScore ==
  (/\ last.op = "score"
   /\ last.args.note = "random text without food keywords"
   /\ last.args.name = "Food")
    => last.resolved = Score(4, 10)

(***************************************************************************)
(* The validation of expenses on its own: SpecE starts with a user who has *)
(* the categories "Food" and "Other" and one expense, and serves one       *)
(* create_expense or update_expense whose amount and note are drawn from   *)
(* the edges of what ExpenseCreate and ExpenseUpdate accept.               *)
(***************************************************************************)
RECURSIVE NoteOfLength(_)
NoteOfLength(n) ==
  IF n = 0 THEN ""
  ELSE IF n % 2 = 1 THEN NoteOfLength(n - 1) \o "z"
  ELSE NoteOfLength(n \div 2) \o NoteOfLength(n \div 2)

\* no amount, amounts that round to 0.00 and to 0.01, an ordinary amount,
\* and amounts at and just above the limit
AmountsE ==
  {[r |-> -1, m |-> 0], [r |-> 0, m |-> 0], [r |-> 0, m |-> 4],
   [r |-> 0, m |-> 6], AmountC, [r |-> MAX_AMOUNT - 1, m |-> 996],
   [r |-> MAX_AMOUNT, m |-> 0], [r |-> MAX_AMOUNT, m |-> 1]}
\* the empty note, a blank one, a padded one, and notes at and just above
\* the limit
NotesE ==
  {"", "  ", "qq", " gas ", NoteOfLength(MAX_NOTE_LENGTH),
   NoteOfLength(MAX_NOTE_LENGTH + 1)}
ResponsesE == {NoResponse, [err |-> FALSE, content |-> "Food"]}
\* the category ids sent with a note: the long notes go with a category, so
\* that the resolver is asked about the short ones only
CategoryIdsE(note) ==
  IF note # None /\ Len(note) > MAX_NAME_LENGTH THEN {CategoryC}
  ELSE {None, CategoryC}

InitE ==
  /\ users = {[id |-> UserC, email |-> "a@x.in"]}
  /\ categories =
       << [id |-> CategoryC, name |-> "Food", emoji |-> "plate",
           user_id |-> UserC],
          [id |-> "c2", name |-> "Other", emoji |-> "memo",
           user_id |-> UserC] >>
  /\ expenses = {[id |-> ExpenseC, user_id |-> UserC, amount |-> AmountC,
                  note |-> "qq", category_id |-> CategoryC]}
  /\ next_id = [users |-> 2, categories |-> 3, expenses |-> 2]
  /\ last = [op |-> "none", user |-> None, args |-> NoArgs, status |-> 0,
             trace |-> <<>>, failed |-> {}, resolved |-> None, written |-> {}]
  /\ nreq = 0
  /\ Sequential

NextE ==
  \/ /\ nreq = 0
     /\ \E amount \in AmountsE, note \in NotesE :
          \E category_id \in CategoryIdsE(note) :
            \E response \in IF Truthy(category_id) THEN {NoResponse}
                            ELSE ResponsesE :
              CreateExpense(UserC, amount, note, category_id, response, {})
  \/ /\ nreq = 0
     /\ \E amount \in {<<>>} \cup {<<a>> : a \in AmountsE},
           note \in {None} \cup NotesE :
          \E category_id \in CategoryIdsE(note) :
            \E response \in IF note # None /\ category_id = None
                            THEN ResponsesE ELSE {NoResponse} :
              UpdateExpense(UserC, ExpenseC, amount, note, category_id,
                            response, {})

SpecE == InitE /\ [][NextE]_vars

\* C26: every persisted expense has a non-empty note of at most 500
\* characters and an amount that is positive and at most 10,000,000: a
\* request that would break this is rejected before any write to the store.
C26_PersistedExpensesValid ==
  \A e \in expenses :
    /\ e.note # ""
    /\ Len(e.note) <= MAX_NOTE_LENGTH
    /\ AmountPositive(e.amount)
    /\ ~AmountExceeds(e.amount, MAX_AMOUNT)

\* what the two handlers do keep: the limits of length and of amount, and,
\* for a created expense, a stripped note that is not empty
ExpenseLimitsKept ==
  /\ \A e \in expenses :
       /\ Len(e.note) <= MAX_NOTE_LENGTH
       /\ ~AmountExceeds(e.amount, MAX_AMOUNT)
  /\ last.op = "create_expense" =>
       \A e \in Written : e.note # "" /\ str_strip(e.note) = e.note
\* an update with the empty note is served and leaves the expense with it
EmptyNotePersisted ==
  (/\ last.op = "update_expense"
   /\ last.args.note = ""
   /\ last.args.amount = <<>>
   /\ last.args.category_id = CategoryC)
    => (last.status = 200 /\ \E e \in expenses : e.id = ExpenseC /\ e.note = "")

(***************************************************************************)
(* Two users side by side: SpecI starts with two registered users, each    *)
(* with a "Food", an "Other" and one expense, and serves one request of    *)
(* either user: one of the six writing handlers, or a read of an expense   *)
(* or of the number of expenses of a category, addressed to a row of       *)
(* either user or to an id no row has.                                     *)
(***************************************************************************)
\* GET /expenses/{expense_id}
get_expense(db, user_id, expense_id, fail) ==
  IF "select" \in fail THEN Resp(500, db, <<"select">>, None)
  ELSE IF ~\E e \in db.expenses : e.id = expense_id /\ e.user_id = user_id
  THEN Resp(404, db, <<"select">>, None)
  ELSE Resp(200, db, <<"select">>, None)

\* GET /categories/{category_id}/expenses-count
get_category_expenses_count(db, user_id, category_id, fail) ==
  IF "category_check" \in fail THEN Resp(500, db, <<"category_check">>, None)
  ELSE IF ~CategoryOfUser(db.categories, category_id, user_id)
  THEN Resp(404, db, <<"category_check">>, None)
  ELSE IF "count" \in fail
  THEN Resp(500, db, <<"category_check", "count">>, None)
  ELSE Resp(200, db, <<"category_check", "count">>, None)

GetExpense(user, expense_id, fail) ==
  Serve("get_expense", user, [NoArgs EXCEPT !.target = expense_id], fail,
        get_expense(DB, user, expense_id, fail))

GetCategoryExpensesCount(user, category_id, fail) ==
  Serve("get_category_expenses_count", user,
        [NoArgs EXCEPT !.target = category_id], fail,
        get_category_expenses_count(DB, user, category_id, fail))

InitI ==
  /\ users = {[id |-> "u1", email |-> "a@x.in"],
              [id |-> "u2", email |-> "b@x.in"]}
  /\ categories =
       << [id |-> "c1", name |-> "Food", emoji |-> "plate", user_id |-> "u1"],
          [id |-> "c2", name |-> "Other", emoji |-> "memo", user_id |-> "u1"],
          [id |-> "c3", name |-> "Food", emoji |-> "plate", user_id |-> "u2"],
          [id |-> "c4", name |-> "Other", emoji |-> "memo", user_id |-> "u2"] >>
  /\ expenses =
       {[id |-> "e1", user_id |-> "u1", amount |-> AmountC, note |-> "qq",
         category_id |-> "c1"],
        [id |-> "e2", user_id |-> "u2", amount |-> AmountC, note |-> "qq",
         category_id |-> "c3"]}
  /\ next_id = [users |-> 3, categories |-> 5, expenses |-> 3]
  /\ last = [op |-> "none", user |-> None, args |-> NoArgs, status |-> 0,
             trace |-> <<>>, failed |-> {}, resolved |-> None, written |-> {}]
  /\ nreq = 0
  /\ Sequential

NextI ==
  \/ /\ nreq = 0
     /\ \E user \in UserIds, name \in RawNames, emoji \in {None} \cup NewEmojis,
           fail \in FailSets({"check", "insert"}) :
          CreateCategory(user, name, emoji, fail)
  \/ /\ nreq = 0
     /\ \E user \in UserIds, category_id \in CategoryTargets,
           name \in {None} \cup NewNames, emoji \in {None} \cup NewEmojis,
           fail \in FailSets({"existing", "name_check", "update"}) :
          UpdateCategory(user, category_id, name, emoji, fail)
  \/ /\ nreq = 0
     /\ \E user \in UserIds, category_id \in CategoryTargets,
           fail \in FailSets({"existing", "other", "move", "delete"}) :
          DeleteCategory(user, category_id, fail)
  \/ /\ nreq = 0
     /\ \E user \in UserIds, category_id \in CategoryTargets,
           fail \in FailSets({"category_check", "count"}) :
          GetCategoryExpensesCount(user, category_id, fail)
  \/ /\ nreq = 0
     /\ \E user \in UserIds, amount \in Amounts, note \in Notes,
           category_id \in {None} \cup CategoryTargets :
          \E response \in ResponsesIf(~Truthy(category_id)),
             fail \in FailSets(CreateExpenseCalls(category_id)) :
            CreateExpense(user, amount, note, category_id, response, fail)
  \/ /\ nreq = 0
     /\ \E user \in UserIds, expense_id \in ExpenseTargets,
           amount \in {<<>>} \cup {<<a>> : a \in Amounts},
           note \in {None} \cup Notes,
           category_id \in {None} \cup CategoryTargets :
          \E response \in ResponsesIf(note # None /\ category_id = None),
             fail \in FailSets(UpdateExpenseCalls(note, category_id)) :
            UpdateExpense(user, expense_id, amount, note, category_id,
                          response, fail)
  \/ /\ nreq = 0
     /\ \E user \in UserIds, expense_id \in ExpenseTargets,
           fail \in FailSets({"existing", "delete"}) :
          DeleteExpense(user, expense_id, fail)
  \/ /\ nreq = 0
     /\ \E user \in UserIds, expense_id \in ExpenseTargets,
           fail \in FailSets({"select"}) :
          GetExpense(user, expense_id, fail)

SpecI == InitI /\ [][NextI]_vars

\* the rows of the two tables that belong to users other than user_id
CategoriesOfOthers(cats, user_id) ==
  SelectSeq(cats, LAMBDA c : c.user_id # user_id)
ExpensesOfOthers(exps, user_id) == {e \in exps : e.user_id # user_id}
\* the request was served with every store call answering, and it is
\* addressed to an expense, or to a category, of another user
ToExpenseOfOther(request) ==
  /\ request.op \in {"get_expense", "update_expense", "delete_expense"}
  /\ request.status # 422
  /\ request.failed = {}
  /\ \E e \in expenses : e.id = request.args.target /\ e.user_id # request.user
ToCategoryOfOther(request) ==
  /\ request.op \in {"get_category_expenses_count", "update_category",
                     "delete_category"}
  /\ request.status # 422
  /\ request.failed = {}
  /\ \E i \in 1..Len(categories) :
       /\ categories[i].id = request.args.target
       /\ categories[i].user_id # request.user

\* C30: no request of a user changes an expense or a category of another
\* user; a read, an update or a delete addressed to an expense or a
\* category of another user is answered 404 and leaves the store as it was.
C30_CrossUserIsolation ==
  [][/\ CategoriesOfOthers(categories', last'.user)
          = CategoriesOfOthers(categories, last'.user)
     /\ ExpensesOfOthers(expenses', last'.user)
          = ExpensesOfOthers(expenses, last'.user)
     /\ (ToExpenseOfOther(last') \/ ToCategoryOfOther(last'))
          => /\ last'.status = 404
             /\ UNCHANGED <<users, categories, expenses, next_id>>
    ]_vars

\* the first user asks to delete the expense of the second
C30_Witness ==
  /\ last.op = "delete_expense"
  /\ last.user = "u1"
  /\ last.args.target = "e2"
  /\ last.status = 404
  /\ \E e \in expenses : e.id = "e2" /\ e.user_id = "u2"

=============================================================================
